---- MODULE Spec2Model ----
(***************************************************************************)
(* Model of the purefunccore combinators (src/purefunccore.go).            *)
(*                                                                         *)
(* Four independent state machines share this module, each with its own    *)
(* specification; the variables of the machines a specification does not   *)
(* exercise stay at their initial values.                                  *)
(*   Spec / SpecPrompt : HandlerFunc.WithTimeout and timeoutWriter         *)
(*   SpecTake          : ReadFunc.Take                                     *)
(*   SpecRetry         : ReadFunc.Retry                                    *)
(*   SpecSink          : WriteFunc.Compose, WriteFunc.Tee, TeeWriter       *)
(***************************************************************************)
EXTENDS Integers, Sequences, FiniteSets, TLC

\* ------------------------------------------------------------------------
\* Bounds of the model
\* ------------------------------------------------------------------------
MaxOps == 3
MaxSleep == 2
MaxTimeout == 2
MaxTime == 3
MaxLimit == 3
MaxBuf == 3
MaxReads == 4
MaxRetries == 3
MaxCount == 1
MaxLen == 2
MaxSinks == 3
MaxWrites == 2
MaxData == 2
MaxReadBuf == 2
MaxComposeReads == 3
MaxReaders == 3
MaxReaderData == 1

\* ------------------------------------------------------------------------
\* Program constants
\* ------------------------------------------------------------------------
StatusOK == 200
StatusRequestTimeout == 408
StatusUnauthorized == 401
StatusInternalServerError == 500

VARIABLES
    \* --- HandlerFunc.WithTimeout ---
    prog,         \* the wrapped handler f: the operations it performs on tw
    timeout,      \* the duration given to WithTimeout
    now,          \* the clock
    hidx,         \* handler goroutine: index of the operation it is at
    hstep,        \* handler goroutine: position inside that operation
    wake,         \* handler goroutine: end of the running time.Sleep
    hres,         \* what each finished operation of the handler returned
    timedOut,     \* tw.timedOut
    wroteHeader,  \* tw.wroteHeader
    mu,           \* tw.mu: "none" or the goroutine holding it
    done,         \* the done channel is closed
    finishedAt,   \* the time at which done was closed, -1 before
    mpc,          \* the calling goroutine's position in the returned handler
    under,        \* the calls that reached the underlying ResponseWriter w
    \* --- ReadFunc.Take ---
    limit,        \* the argument of Take
    remaining,    \* the closure's remaining budget
    total,        \* the bytes the adapter has returned so far
    tReads,       \* the reads made through the adapter
    srcCalls,     \* the invocations of the wrapped source f
    tN,           \* the count the last read returned
    tErr,         \* the status the last read returned
    \* --- ReadFunc.Retry ---
    maxRetries,   \* the argument of Retry
    ri,           \* the loop counter i
    rLastErr,     \* lastErr
    rLog,         \* the results of the invocations of f in this read
    rpc,          \* "loop" while the read runs, "returned" after
    rN,           \* the count the read returned
    rErr,         \* the status the read returned
    \* --- WriteFunc.Compose, WriteFunc.Tee, TeeWriter ---
    skind,        \* which combinator built the writer
    nSinks,       \* the number of sinks it wraps
    sbuf,         \* the buffer p of the running write
    sIdx,         \* the sink the write is at
    sInv,         \* the sinks invoked by this write, with what they returned
    spc,          \* "idle", "run" or "returned"
    sWrites,      \* the writes started so far
    sN,           \* the count the write returned
    sErr,         \* the error the write returned
    sfn,          \* the transform or predicate given to Map, Filter, FilterWriter
    \* --- ReadFunc.Compose ---
    cA,           \* the source f the adapter was built on
    cB,           \* the source next
    exhausted,    \* the closure's exhausted flag
    cHist,        \* every invocation of f and next so far, with its read
    cReads,       \* the reads made through the adapter
    cN,           \* the count the last read returned
    cErr,         \* the status the last read returned
    cBytes,       \* the bytes p[:n] the last read returned
    \* --- ComposeReaders ---
    readers,      \* the readers given to ComposeReaders
    idx,          \* the closure's idx
    crContent,    \* the contents of the readers at construction, in order
    crOut,        \* the bytes the caller has read so far
    crN,          \* the count the last read returned
    crErr,        \* the status the last read returned
    \* --- ReadFunc.Map, ReadFunc.Filter, FilterReader ---
    mkind,        \* which combinator built the reader
    mfn,          \* the transform or predicate it was given
    mBuf0,        \* the buffer p as the wrapped source left it
    mBuf,         \* the buffer p when the read returns
    mSrcN,        \* the count the wrapped source returned
    mSrcErr,      \* the status the wrapped source returned
    mCalls,       \* the arguments of the calls of the transform
    mN,           \* the count the read returned
    mErr,         \* the status the read returned
    mapc,         \* "start", "filled" or "returned"
    \* --- Empty().Compose(X) beside X ---
    ikind,        \* "source", "sink" or "stringer": what X is
    iX,           \* the source X that Empty().Compose(X) reads
    iXd,          \* the same source X, read directly
    iExh,         \* the exhausted flag of the composed reader's closure
    iCalls,       \* the calls made so far
    iResC,        \* what the last call of Empty().Compose(X) returned
    iResD,        \* what the same call of X returned
    iInvC,        \* the arguments X was invoked with by Empty().Compose(X)
    iInvD,        \* the arguments X was invoked with directly
    \* --- chains of WithLogging, WithAuth, WithCORS, Recover ---
    mwChain,      \* the combinators applied to h, the one applied last first
    mwMethod,     \* r.Method
    mwAuthOk,     \* what authenticate(r) returns
    mwProg,       \* what the handler h does
    mwDepth,      \* the layer in control: 1 is the outermost, Len + 1 is h
    mwPhase,      \* "call", "return", "panic", "done" or "crashed"
    mwPc,         \* the next operation of h
    mwEv,         \* the calls of layers, log lines and response writer calls
    \* --- ReadFunc.WithTimeout ---
    rtReads,      \* the reads started so far; the last one is the current read
    rtMain,       \* the caller: "idle", "spawned", "armed" or "parked"
    rtG,          \* per read, its goroutine: "none", "running", "sending", "done"
    rtCh,         \* per read, the contents of its channel ch
    rtFired,      \* per read, whether its timer has fired
    rtSrc,        \* per read, what its invocation of f returned
    rtSrcCalls,   \* per read, the invocations of f its goroutine made
    rtRet,        \* per read, what the read returned
    rtOrder,      \* per read, the timer and delivery events before it returned
    rtWaited,     \* per read, whether its select found nothing ready and waited
    \* --- WithMetrics ---
    wmPc,         \* per caller, where its Write call is
    wmRes,        \* per caller, what w.Write(p) returned
    wmRet,        \* per caller, what its call returned
    wmTmp,        \* per caller, the counter value it has loaded
    wmMu,         \* metrics.mu: 0 when free, else the caller holding it
    TotalBytes,   \* metrics.TotalBytes
    TotalWrites,  \* metrics.TotalWrites
    TotalDuration, \* metrics.TotalDuration
    ErrorCount,   \* metrics.Errors
    \* --- h.WithTimeout(d).Recover() ---
    gpProg,       \* what the handler h does
    gpIdx,        \* the next operation of h
    gpH,          \* the goroutine of WithTimeout: "none", "running", "unwound", "finished"
    gpMain,       \* the caller's goroutine, from Recover's closure to its return
    gpPanicOn,    \* the goroutine whose stack a panic is unwinding, or "none"
    gpFired,      \* whether ctx.Done() is closed
    gpTimedOut,   \* tw.timedOut
    gpWroteHeader, \* tw.wroteHeader
    gpDone,       \* whether done is closed
    gpProcess,    \* "running", or "crashed" once a panic has ended the program
    gpUnder       \* the calls made on the underlying response writer

httpVars == <<prog, timeout, now, hidx, hstep, wake, hres, timedOut,
              wroteHeader, mu, done, finishedAt, mpc, under>>
takeVars == <<limit, remaining, total, tReads, srcCalls, tN, tErr>>
retryVars == <<maxRetries, ri, rLastErr, rLog, rpc, rN, rErr>>
sinkVars == <<skind, nSinks, sbuf, sIdx, sInv, spc, sWrites, sN, sErr, sfn>>

composeVars == <<cA, cB, exhausted, cHist, cReads, cN, cErr, cBytes>>
readersVars == <<readers, idx, crContent, crOut, crN, crErr>>
mapVars == <<mkind, mfn, mBuf0, mBuf, mSrcN, mSrcErr, mCalls, mN, mErr, mapc>>
identityVars == <<ikind, iX, iXd, iExh, iCalls, iResC, iResD, iInvC, iInvD>>
chainVars == <<mwChain, mwMethod, mwAuthOk, mwProg, mwDepth, mwPhase, mwPc, mwEv>>
rtVars == <<rtReads, rtMain, rtG, rtCh, rtFired, rtSrc, rtSrcCalls, rtRet, rtOrder, rtWaited>>
metricsVars == <<wmPc, wmRes, wmRet, wmTmp, wmMu, TotalBytes, TotalWrites, TotalDuration, ErrorCount>>
guardVars == <<gpProg, gpIdx, gpH, gpMain, gpPanicOn, gpFired, gpTimedOut, gpWroteHeader, gpDone, gpProcess, gpUnder>>
lateVars == <<rtVars, metricsVars, guardVars>>
restVars == <<composeVars, readersVars, mapVars, identityVars, chainVars, lateVars>>

vars == <<httpVars, takeVars, retryVars, sinkVars, restVars>>

\* The machines other than the one a specification exercises
notHttp == <<takeVars, retryVars, sinkVars, restVars>>
notTake == <<httpVars, retryVars, sinkVars, restVars>>
notRetry == <<httpVars, takeVars, sinkVars, restVars>>
notSink == <<httpVars, takeVars, retryVars, restVars>>
coreVars == <<httpVars, takeVars, retryVars, sinkVars>>
notCompose == <<coreVars, readersVars, mapVars, identityVars, chainVars, lateVars>>
notReaders == <<coreVars, composeVars, mapVars, identityVars, chainVars, lateVars>>
notMap == <<coreVars, composeVars, readersVars, identityVars, chainVars, lateVars>>
notIdentity == <<coreVars, composeVars, readersVars, mapVars, chainVars, lateVars>>
notChain == <<coreVars, composeVars, readersVars, mapVars, identityVars, lateVars>>
earlyVars == <<coreVars, composeVars, readersVars, mapVars, identityVars, chainVars>>
notRt == <<earlyVars, metricsVars, guardVars>>
notMetrics == <<earlyVars, rtVars, guardVars>>
notGuard == <<earlyVars, rtVars, metricsVars>>

\* ------------------------------------------------------------------------
\* The wrapped handler: a straight-line program over the guarded writer
\* ------------------------------------------------------------------------
OpWriteHeader(code) == [op |-> "WriteHeader", n |-> code, s |-> ""]
OpWrite(b) == [op |-> "Write", n |-> 0, s |-> b]
OpSleep(d) == [op |-> "Sleep", n |-> d, s |-> ""]

HandlerOps == {OpWriteHeader(StatusOK), OpWrite("a")} \cup {OpSleep(d) : d \in 1..MaxSleep}

Handlers == UNION {[1..k -> HandlerOps] : k \in 0..MaxOps}

\* ------------------------------------------------------------------------
\* The underlying http.ResponseWriter, as the sequence of calls it received
\* ------------------------------------------------------------------------
Call(who, o) == [who |-> who, op |-> o.op, n |-> o.n, s |-> o.s]

\* The status the response carries: that of the first call. A Write with no
\* earlier WriteHeader sends an implicit 200; later WriteHeader calls are
\* superfluous and change nothing.
RespStatus(calls) ==
    IF calls = <<>> THEN 0
    ELSE IF calls[1].op = "WriteHeader" THEN calls[1].n ELSE StatusOK

HttpInit ==
    /\ prog \in Handlers
    /\ timeout \in 1..MaxTimeout
    /\ now = 0
    /\ hidx = 1
    /\ hstep = "call"
    /\ wake = 0
    /\ hres = <<>>
    /\ timedOut = 0
    /\ wroteHeader = FALSE
    /\ mu = "none"
    /\ done = FALSE
    /\ finishedAt = -1
    /\ mpc = "select"
    /\ under = <<>>

\* ------------------------------------------------------------------------
\* timeoutWriter.Write / timeoutWriter.WriteHeader, run by the handler
\* ------------------------------------------------------------------------
AtOp(kinds) == hidx <= Len(prog) /\ prog[hidx].op \in kinds

\* A guarded writer that never sees the flag set
TimedOutLoadedNever == FALSE

\* atomic.LoadInt32(&tw.timedOut) == 1
TimedOutLoaded == timedOut = 1

Rejection(o) == IF o.op = "Write" THEN "ErrHandlerTimeout" ELSE "dropped"

\* The first statement of Write and WriteHeader: the flag is loaded, and the
\* call returns at once when it is set.
HandlerCall ==
    /\ AtOp({"Write", "WriteHeader"})
    /\ hstep = "call"
    /\ IF TimedOutLoaded
       THEN /\ hres' = Append(hres, Rejection(prog[hidx]))
            /\ hidx' = hidx + 1
            /\ hstep' = "call"
       ELSE /\ hstep' = "lock"
            /\ UNCHANGED <<hidx, hres>>
    /\ UNCHANGED notHttp
    /\ UNCHANGED <<prog, timeout, now, wake, timedOut, wroteHeader, mu, done,
                   finishedAt, mpc, under>>

\* tw.mu.Lock()
HandlerLock ==
    /\ AtOp({"Write", "WriteHeader"})
    /\ hstep = "lock"
    /\ mu = "none"
    /\ mu' = "handler"
    /\ hstep' = "crit"
    /\ UNCHANGED notHttp
    /\ UNCHANGED <<prog, timeout, now, hidx, wake, hres, timedOut, wroteHeader,
                   done, finishedAt, mpc, under>>

\* Write: return tw.ResponseWriter.Write(b), then the deferred Unlock
HandlerWrite ==
    /\ AtOp({"Write"})
    /\ hstep = "crit"
    /\ under' = Append(under, Call("handler", prog[hidx]))
    /\ hres' = Append(hres, "ok")
    /\ mu' = "none"
    /\ hidx' = hidx + 1
    /\ hstep' = "call"
    /\ UNCHANGED notHttp
    /\ UNCHANGED <<prog, timeout, now, wake, timedOut, wroteHeader, done,
                   finishedAt, mpc>>

\* WriteHeader: if !tw.wroteHeader { ... }, then the deferred Unlock
HandlerWriteHeader ==
    /\ AtOp({"WriteHeader"})
    /\ hstep = "crit"
    /\ IF ~wroteHeader
       THEN /\ wroteHeader' = TRUE
            /\ under' = Append(under, Call("handler", prog[hidx]))
       ELSE UNCHANGED <<wroteHeader, under>>
    /\ hres' = Append(hres, "ok")
    /\ mu' = "none"
    /\ hidx' = hidx + 1
    /\ hstep' = "call"
    /\ UNCHANGED notHttp
    /\ UNCHANGED <<prog, timeout, now, wake, timedOut, done, finishedAt, mpc>>

\* time.Sleep(d) inside the handler: it sleeps at least d
HandlerSleep ==
    /\ AtOp({"Sleep"})
    /\ hstep = "call"
    /\ wake' = now + prog[hidx].n
    /\ hstep' = "sleeping"
    /\ UNCHANGED notHttp
    /\ UNCHANGED <<prog, timeout, now, hidx, hres, timedOut, wroteHeader, mu,
                   done, finishedAt, mpc, under>>

HandlerWake ==
    /\ AtOp({"Sleep"})
    /\ hstep = "sleeping"
    /\ now >= wake
    /\ hres' = Append(hres, "slept")
    /\ hidx' = hidx + 1
    /\ hstep' = "call"
    /\ UNCHANGED notHttp
    /\ UNCHANGED <<prog, timeout, now, wake, timedOut, wroteHeader, mu, done,
                   finishedAt, mpc, under>>

\* f returns; the goroutine's deferred close(done) runs
HandlerReturn ==
    /\ hidx = Len(prog) + 1
    /\ hstep = "call"
    /\ ~done
    /\ done' = TRUE
    /\ finishedAt' = now
    /\ hstep' = "done"
    /\ UNCHANGED notHttp
    /\ UNCHANGED <<prog, timeout, now, hidx, wake, hres, timedOut, wroteHeader,
                   mu, mpc, under>>

\* ------------------------------------------------------------------------
\* The handler returned by HandlerFunc.WithTimeout, run by the caller
\* ------------------------------------------------------------------------
\* case <-done: return
MainSelectDone ==
    /\ mpc = "select"
    /\ done
    /\ mpc' = "returned"
    /\ UNCHANGED notHttp
    /\ UNCHANGED <<prog, timeout, now, hidx, hstep, wake, hres, timedOut,
                   wroteHeader, mu, done, finishedAt, under>>

\* case <-ctx.Done(): the deadline of context.WithTimeout has passed. When
\* both channels are ready, select picks either case.
MainSelectTimeout ==
    /\ mpc = "select"
    /\ now >= timeout
    /\ mpc' = "store"
    /\ UNCHANGED notHttp
    /\ UNCHANGED <<prog, timeout, now, hidx, hstep, wake, hres, timedOut,
                   wroteHeader, mu, done, finishedAt, under>>

\* A timeout path that leaves the flag unset
MainStoreNoFlag ==
    /\ mpc = "store"
    /\ mpc' = "wait"
    /\ UNCHANGED notHttp
    /\ UNCHANGED <<prog, timeout, now, hidx, hstep, wake, hres, timedOut,
                   wroteHeader, mu, done, finishedAt, under>>

\* atomic.StoreInt32(&tw.timedOut, 1)
MainStore ==
    /\ mpc = "store"
    /\ timedOut' = 1
    /\ mpc' = "wait"
    /\ UNCHANGED notHttp
    /\ UNCHANGED <<prog, timeout, now, hidx, hstep, wake, hres, wroteHeader,
                   mu, done, finishedAt, under>>

\* A timeout path that does not wait for the handler goroutine
MainWaitDoneSkip ==
    /\ mpc = "wait"
    /\ mpc' = "lock"
    /\ UNCHANGED notHttp
    /\ UNCHANGED <<prog, timeout, now, hidx, hstep, wake, hres, timedOut,
                   wroteHeader, mu, done, finishedAt, under>>

\* <-done
MainWaitDone ==
    /\ mpc = "wait"
    /\ done
    /\ mpc' = "lock"
    /\ UNCHANGED notHttp
    /\ UNCHANGED <<prog, timeout, now, hidx, hstep, wake, hres, timedOut,
                   wroteHeader, mu, done, finishedAt, under>>

\* A timeout path that does not take the lock
MainLockSkipping ==
    /\ mpc = "lock"
    /\ mpc' = "check"
    /\ UNCHANGED notHttp
    /\ UNCHANGED <<prog, timeout, now, hidx, hstep, wake, hres, timedOut,
                   wroteHeader, mu, done, finishedAt, under>>

\* tw.mu.Lock()
MainLock ==
    /\ mpc = "lock"
    /\ mu = "none"
    /\ mu' = "main"
    /\ mpc' = "check"
    /\ UNCHANGED notHttp
    /\ UNCHANGED <<prog, timeout, now, hidx, hstep, wake, hres, timedOut,
                   wroteHeader, done, finishedAt, under>>

\* if !tw.wroteHeader
MainCheck ==
    /\ mpc = "check"
    /\ mpc' = IF ~wroteHeader THEN "wh" ELSE "unlock"
    /\ UNCHANGED notHttp
    /\ UNCHANGED <<prog, timeout, now, hidx, hstep, wake, hres, timedOut,
                   wroteHeader, mu, done, finishedAt, under>>

\* w.WriteHeader(http.StatusRequestTimeout)
MainWriteHeader ==
    /\ mpc = "wh"
    /\ under' = Append(under, Call("timeout", OpWriteHeader(StatusRequestTimeout)))
    /\ mpc' = "wb"
    /\ UNCHANGED notHttp
    /\ UNCHANGED <<prog, timeout, now, hidx, hstep, wake, hres, timedOut,
                   wroteHeader, mu, done, finishedAt>>

\* w.Write([]byte("Request timeout\n"))
MainWriteBody ==
    /\ mpc = "wb"
    /\ under' = Append(under, Call("timeout", OpWrite("Request timeout\n")))
    /\ mpc' = "unlock"
    /\ UNCHANGED notHttp
    /\ UNCHANGED <<prog, timeout, now, hidx, hstep, wake, hres, timedOut,
                   wroteHeader, mu, done, finishedAt>>

\* tw.mu.Unlock(), and the function returns
MainUnlock ==
    /\ mpc = "unlock"
    /\ mu' = "none"
    /\ mpc' = "returned"
    /\ UNCHANGED notHttp
    /\ UNCHANGED <<prog, timeout, now, hidx, hstep, wake, hres, timedOut,
                   wroteHeader, done, finishedAt, under>>

\* A step of either goroutine
Step ==
    \/ HandlerCall \/ HandlerLock \/ HandlerWrite \/ HandlerWriteHeader
    \/ HandlerSleep \/ HandlerWake \/ HandlerReturn
    \/ MainSelectDone \/ MainSelectTimeout \/ MainStore \/ MainWaitDone
    \/ MainLock \/ MainCheck \/ MainWriteHeader \/ MainWriteBody \/ MainUnlock

\* Time passes, whatever the goroutines are doing: a runnable goroutine may be
\* scheduled arbitrarily late.
Tick ==
    /\ now < MaxTime
    /\ mpc # "returned"
    /\ now' = now + 1
    /\ UNCHANGED notHttp
    /\ UNCHANGED <<prog, timeout, hidx, hstep, wake, hres, timedOut,
                   wroteHeader, mu, done, finishedAt, mpc, under>>

\* Time passes only when no goroutine can run: every goroutine runs as soon
\* as it is runnable, and its steps take no time.
TickPrompt ==
    /\ ~ENABLED Step
    /\ Tick

\* The handler machine at rest, for the specifications of the other machines
HttpIdle ==
    /\ prog = <<>>
    /\ timeout = 1
    /\ now = 0
    /\ hidx = 1
    /\ hstep = "call"
    /\ wake = 0
    /\ hres = <<>>
    /\ timedOut = 0
    /\ wroteHeader = FALSE
    /\ mu = "none"
    /\ done = FALSE
    /\ finishedAt = -1
    /\ mpc = "select"
    /\ under = <<>>

\* ========================================================================
\* ReadFunc.Take
\* ========================================================================
\* What the wrapped source may report with its count
Statuses == {"nil", "EOF", "err"}

TakeInit ==
    /\ limit \in -1..MaxLimit
    /\ remaining = limit
    /\ total = 0
    /\ tReads = 0
    /\ srcCalls = 0
    /\ tN = 0
    /\ tErr = "nil"

TakeIdle ==
    /\ limit = 0
    /\ remaining = 0
    /\ total = 0
    /\ tReads = 0
    /\ srcCalls = 0
    /\ tN = 0
    /\ tErr = "nil"

\* A budget test that lets a read through with nothing left
ExhaustedStrict(rem) == rem < 0

\* if remaining <= 0
Exhausted(rem) == rem <= 0

\* A Take that hands the whole buffer to the source
TakeBufferWhole(len, rem) == len

\* if int64(len(p)) > remaining { p = p[:remaining] }: the length of the
\* buffer handed to the source
TakeBuffer(len, rem) == IF len > rem THEN rem ELSE len

\* One read of the adapter with a buffer of length len; the source returns
\* any count within the buffer it is given, with any status.
TakeRead ==
    /\ tReads < MaxReads
    /\ tReads' = tReads + 1
    /\ \E len \in 0..MaxBuf :
        IF Exhausted(remaining)
        THEN /\ tN' = 0
             /\ tErr' = "EOF"
             /\ UNCHANGED <<remaining, srcCalls, total>>
        ELSE \E n \in 0..TakeBuffer(len, remaining), e \in Statuses :
             /\ srcCalls' = srcCalls + 1
             /\ remaining' = remaining - n
             /\ tN' = n
             /\ tErr' = e
             /\ total' = total + n
    /\ UNCHANGED limit
    /\ UNCHANGED notTake

\* ========================================================================
\* ReadFunc.Retry
\* ========================================================================
Errors == {"e1", "e2"}

\* What one invocation of the wrapped source returns
SourceResults == [n : 0..MaxCount, err : {"nil", "EOF"} \cup Errors]

IsFailure(r) == ~(r.err = "nil" \/ r.err = "EOF")

RetryInit ==
    /\ maxRetries \in -1..MaxRetries
    /\ ri = 0
    /\ rLastErr = "nil"
    /\ rLog = <<>>
    /\ rpc = "loop"
    /\ rN = 0
    /\ rErr = "nil"

RetryIdle ==
    /\ maxRetries = 0
    /\ ri = 0
    /\ rLastErr = "nil"
    /\ rLog = <<>>
    /\ rpc = "loop"
    /\ rN = 0
    /\ rErr = "nil"

\* A loop that makes one attempt too few
RetryContinuesShort(i, k) == i < k

\* for i := 0; i <= maxRetries; i++
RetryContinues(i, k) == i <= k

\* One iteration of the loop: f is invoked, and its result either ends the
\* read or is remembered in lastErr.
RetryAttempt ==
    /\ rpc = "loop"
    /\ RetryContinues(ri, maxRetries)
    /\ \E r \in SourceResults :
        /\ rLog' = Append(rLog, r)
        /\ IF ~IsFailure(r)
           THEN /\ rpc' = "returned"
                /\ rN' = r.n
                /\ rErr' = r.err
                /\ UNCHANGED <<ri, rLastErr>>
           ELSE /\ rLastErr' = r.err
                /\ ri' = ri + 1
                /\ UNCHANGED <<rpc, rN, rErr>>
    /\ UNCHANGED maxRetries
    /\ UNCHANGED notRetry

\* The loop ends: return 0, lastErr
RetryExhausted ==
    /\ rpc = "loop"
    /\ ~RetryContinues(ri, maxRetries)
    /\ rpc' = "returned"
    /\ rN' = 0
    /\ rErr' = rLastErr
    /\ UNCHANGED <<maxRetries, ri, rLastErr, rLog>>
    /\ UNCHANGED notRetry

\* ========================================================================
\* WriteFunc.Compose, WriteFunc.Tee, TeeWriter
\* ========================================================================
Bytes == {"a", "b"}

Buffers == UNION {[1..k -> Bytes] : k \in 0..MaxLen}

\* What a sink may return for a buffer of length len: any count, the buffer
\* length plus one included, with or without an error
SinkResults(len) == [n : 0..(len + 1), err : {"nil", "e1", "e2"}]

Invocation(i, p, r) == [sink |-> i, p |-> p, n |-> r.n, err |-> r.err]

\* The transforms a caller may give to Map and FilterWriter: one that keeps
\* the length, one that shrinks and one that grows the buffer
Transforms == {"swap", "dropA", "double"}

\* The predicates a caller may give to Filter
Predicates == {"isA", "isB"}

Satisfies(pred, b) == IF pred = "isA" THEN b = "a" ELSE b = "b"

RECURSIVE FilterAppend(_, _, _, _)
\* for _, b := range p { if predicate(b) { filtered = append(filtered, b) } }
FilterAppend(pred, p, i, filtered) ==
    IF i > Len(p) THEN filtered
    ELSE FilterAppend(pred, p, i + 1,
                      IF Satisfies(pred, p[i]) THEN Append(filtered, p[i])
                      ELSE filtered)

Swap(b) == IF b = "a" THEN "b" ELSE "a"

Transform(t, p) ==
    IF t = "swap" THEN [i \in 1..Len(p) |-> Swap(p[i])]
    ELSE IF t = "dropA" THEN FilterAppend("isB", p, 1, <<>>)
    ELSE p \o p

SinkInit ==
    /\ skind \in {"Compose", "Tee", "TeeWriter", "Map", "Filter", "FilterWriter"}
    /\ nSinks \in 0..MaxSinks
    /\ skind = "Compose" => nSinks = 2
    /\ skind = "Tee" => nSinks >= 1
    /\ skind \in {"Map", "Filter", "FilterWriter"} => nSinks = 1
    /\ sfn \in Transforms \cup Predicates \cup {"none"}
    /\ skind \in {"Map", "FilterWriter"} <=> sfn \in Transforms
    /\ skind = "Filter" <=> sfn \in Predicates
    /\ sbuf = <<>>
    /\ sIdx = 1
    /\ sInv = <<>>
    /\ spc = "idle"
    /\ sWrites = 0
    /\ sN = 0
    /\ sErr = "nil"

SinkIdle ==
    /\ sfn = "none"
    /\ skind = "Compose"
    /\ nSinks = 2
    /\ sbuf = <<>>
    /\ sIdx = 1
    /\ sInv = <<>>
    /\ spc = "idle"
    /\ sWrites = 0
    /\ sN = 0
    /\ sErr = "nil"

\* The caller writes a buffer p through the composed writer
SinkWrite ==
    /\ spc \in {"idle", "returned"}
    /\ sWrites < MaxWrites
    /\ sWrites' = sWrites + 1
    /\ sbuf' \in Buffers
    /\ sIdx' = 1
    /\ sInv' = <<>>
    /\ spc' = "run"
    /\ sN' = 0
    /\ sErr' = "nil"
    /\ UNCHANGED <<sfn, skind, nSinks>>
    /\ UNCHANGED notSink

\* Compose: n1, err1 := f(p), then n2, err2 := other(p)
ComposeInvoke ==
    /\ skind = "Compose"
    /\ spc = "run"
    /\ sIdx <= 2
    /\ \E r \in SinkResults(Len(sbuf)) :
        sInv' = Append(sInv, Invocation(sIdx, sbuf, r))
    /\ sIdx' = sIdx + 1
    /\ UNCHANGED <<sfn, skind, nSinks, sbuf, spc, sWrites, sN, sErr>>
    /\ UNCHANGED notSink

\* A Compose that reports the first sink's short write before it looks at
\* the second sink's error
ComposeResultShortFirst(r1, r2, len) ==
    IF r1.err # "nil" THEN <<r1.n, r1.err>>
    ELSE IF r1.n # len THEN <<r1.n, "ErrShortWrite">>
    ELSE IF r2.err # "nil" THEN <<r2.n, r2.err>>
    ELSE <<r2.n, "nil">>

\* Compose: the four returns that follow the two invocations
ComposeResult(r1, r2, len) ==
    IF r1.err # "nil" THEN <<r1.n, r1.err>>
    ELSE IF r2.err # "nil" THEN <<r2.n, r2.err>>
    ELSE IF r1.n # len THEN <<r1.n, "ErrShortWrite">>
    ELSE <<r2.n, "nil">>

ComposeReturn ==
    /\ skind = "Compose"
    /\ spc = "run"
    /\ sIdx = 3
    /\ LET res == ComposeResult(sInv[1], sInv[2], Len(sbuf))
       IN /\ sN' = res[1]
          /\ sErr' = res[2]
    /\ spc' = "returned"
    /\ UNCHANGED <<sfn, skind, nSinks, sbuf, sIdx, sInv, sWrites>>
    /\ UNCHANGED notSink

\* A Tee that stops at errors only
TeeStopsOnErrorOnly(r, len) == r.err # "nil"

\* Tee: err != nil, or n != len(p)
TeeStops(r, len) == r.err # "nil" \/ r.n # len

\* A Tee whose loop steps over every other sink
TeeInvokeSkipping ==
    /\ skind = "Tee"
    /\ spc = "run"
    /\ sIdx <= nSinks
    /\ \E r \in SinkResults(Len(sbuf)) :
        /\ sInv' = Append(sInv, Invocation(sIdx, sbuf, r))
        /\ IF TeeStops(r, Len(sbuf))
           THEN /\ sN' = r.n
                /\ sErr' = IF r.err # "nil" THEN r.err ELSE "ErrShortWrite"
                /\ spc' = "returned"
                /\ UNCHANGED sIdx
           ELSE /\ sIdx' = sIdx + 2
                /\ UNCHANGED <<sN, sErr, spc>>
    /\ UNCHANGED <<sfn, skind, nSinks, sbuf, sWrites>>
    /\ UNCHANGED notSink

\* Tee: one iteration of the loop over all = [f, others...]
TeeInvoke ==
    /\ skind = "Tee"
    /\ spc = "run"
    /\ sIdx <= nSinks
    /\ \E r \in SinkResults(Len(sbuf)) :
        /\ sInv' = Append(sInv, Invocation(sIdx, sbuf, r))
        /\ IF TeeStops(r, Len(sbuf))
           THEN /\ sN' = r.n
                /\ sErr' = IF r.err # "nil" THEN r.err ELSE "ErrShortWrite"
                /\ spc' = "returned"
                /\ UNCHANGED sIdx
           ELSE /\ sIdx' = sIdx + 1
                /\ UNCHANGED <<sN, sErr, spc>>
    /\ UNCHANGED <<sfn, skind, nSinks, sbuf, sWrites>>
    /\ UNCHANGED notSink

\* Tee: the loop ends, return len(p), nil
TeeReturn ==
    /\ skind = "Tee"
    /\ spc = "run"
    /\ sIdx > nSinks
    /\ sN' = Len(sbuf)
    /\ sErr' = "nil"
    /\ spc' = "returned"
    /\ UNCHANGED <<sfn, skind, nSinks, sbuf, sIdx, sInv, sWrites>>
    /\ UNCHANGED notSink

\* TeeWriter: one iteration of the loop over writers
TeeWriterInvoke ==
    /\ skind = "TeeWriter"
    /\ spc = "run"
    /\ sIdx <= nSinks
    /\ \E r \in SinkResults(Len(sbuf)) :
        /\ sInv' = Append(sInv, Invocation(sIdx, sbuf, r))
        /\ IF r.err # "nil"
           THEN /\ sN' = r.n
                /\ sErr' = r.err
                /\ spc' = "returned"
                /\ UNCHANGED sIdx
           ELSE IF r.n # Len(sbuf)
           THEN /\ sN' = r.n
                /\ sErr' = "ErrShortWrite"
                /\ spc' = "returned"
                /\ UNCHANGED sIdx
           ELSE /\ sIdx' = sIdx + 1
                /\ UNCHANGED <<sN, sErr, spc>>
    /\ UNCHANGED <<sfn, skind, nSinks, sbuf, sWrites>>
    /\ UNCHANGED notSink

\* TeeWriter: the loop ends, return len(p), nil
TeeWriterReturn ==
    /\ skind = "TeeWriter"
    /\ spc = "run"
    /\ sIdx > nSinks
    /\ sN' = Len(sbuf)
    /\ sErr' = "nil"
    /\ spc' = "returned"
    /\ UNCHANGED <<sfn, skind, nSinks, sbuf, sIdx, sInv, sWrites>>
    /\ UNCHANGED notSink

\* A Map that reports what the sink accepted of the transformed buffer
MapResultSinkCount(r, len) == <<r.n, r.err>>

\* WriteFunc.Map: if err != nil { return n, err }; return len(p), nil
MapResult(r, len) == IF r.err # "nil" THEN <<r.n, r.err>> ELSE <<len, "nil">>

\* WriteFunc.Map: the transformed buffer goes to the wrapped sink
MapWrite ==
    /\ skind = "Map"
    /\ spc = "run"
    /\ LET transformed == Transform(sfn, sbuf)
       IN \E r \in SinkResults(Len(transformed)) :
            /\ sInv' = Append(sInv, Invocation(1, transformed, r))
            /\ sN' = MapResult(r, Len(sbuf))[1]
            /\ sErr' = MapResult(r, Len(sbuf))[2]
    /\ spc' = "returned"
    /\ UNCHANGED <<sfn, skind, nSinks, sbuf, sIdx, sWrites>>
    /\ UNCHANGED notSink

\* WriteFunc.Filter: the bytes satisfying the predicate go to the wrapped sink
FilterWrite ==
    /\ skind = "Filter"
    /\ spc = "run"
    /\ LET filtered == FilterAppend(sfn, sbuf, 1, <<>>)
       IN \E r \in SinkResults(Len(filtered)) :
            /\ sInv' = Append(sInv, Invocation(1, filtered, r))
            /\ IF r.err # "nil"
               THEN sN' = r.n /\ sErr' = r.err
               ELSE sN' = Len(sbuf) /\ sErr' = "nil"
    /\ spc' = "returned"
    /\ UNCHANGED <<sfn, skind, nSinks, sbuf, sIdx, sWrites>>
    /\ UNCHANGED notSink

\* FilterWriter: filter(p) goes to the wrapped writer
FilterWriterWrite ==
    /\ skind = "FilterWriter"
    /\ spc = "run"
    /\ LET filtered == Transform(sfn, sbuf)
       IN \E r \in SinkResults(Len(filtered)) :
            /\ sInv' = Append(sInv, Invocation(1, filtered, r))
            /\ IF r.err # "nil"
               THEN sN' = r.n /\ sErr' = r.err
               ELSE sN' = Len(sbuf) /\ sErr' = "nil"
    /\ spc' = "returned"
    /\ UNCHANGED <<sfn, skind, nSinks, sbuf, sIdx, sWrites>>
    /\ UNCHANGED notSink

\* ========================================================================
\* Byte sources: what the readers wrapped by the combinators do
\* ========================================================================
\* A source holds the bytes it has still to deliver. It reports end-of-stream
\* together with its last bytes ("together") or in a read of its own, with
\* zero bytes ("separate"); with fail set, its next read fails with no bytes.
Sources(maxData) ==
    [data : UNION {[1..k -> Bytes] : k \in 0..maxData},
     style : {"together", "separate"},
     fail : BOOLEAN]

Min(a, b) == IF a < b THEN a ELSE b

Drop(s, n) == SubSeq(s, n + 1, Len(s))

\* One Read of a source with a buffer of length len: what it returns, the
\* bytes it put in p[:n], and the source afterwards
SrcRead(src, len) ==
    LET n == Min(len, Len(src.data))
    IN IF src.fail
       THEN [n |-> 0, err |-> "err", bytes |-> <<>>,
             next |-> [src EXCEPT !.fail = FALSE]]
       ELSE IF src.data = <<>>
       THEN [n |-> 0, err |-> "EOF", bytes |-> <<>>, next |-> src]
       ELSE [n |-> n,
             err |-> IF src.style = "together" /\ n = Len(src.data)
                     THEN "EOF" ELSE "nil",
             bytes |-> SubSeq(src.data, 1, n),
             next |-> [src EXCEPT !.data = Drop(src.data, n)]]

\* ========================================================================
\* ReadFunc.Compose
\* ========================================================================
ComposeInit ==
    /\ cA \in Sources(MaxData)
    /\ cB \in Sources(MaxData)
    /\ exhausted = FALSE
    /\ cHist = <<>>
    /\ cReads = 0
    /\ cN = 0
    /\ cErr = "nil"
    /\ cBytes = <<>>

ComposeIdle ==
    /\ cA = [data |-> <<>>, style |-> "separate", fail |-> FALSE]
    /\ cB = [data |-> <<>>, style |-> "separate", fail |-> FALSE]
    /\ exhausted = FALSE
    /\ cHist = <<>>
    /\ cReads = 0
    /\ cN = 0
    /\ cErr = "nil"
    /\ cBytes = <<>>

\* A Compose that forgets that f is exhausted
ReadComposeStepForgetful(exh, ra, rb) ==
    IF ra.err = "EOF"
    THEN [exhausted |-> FALSE, callsA |-> TRUE, callsB |-> TRUE, res |-> rb]
    ELSE [exhausted |-> FALSE, callsA |-> TRUE, callsB |-> FALSE, res |-> ra]

\* The body of the reader Compose returns. ra and rb are what f(p) and
\* next(p) return when they are invoked; callsA and callsB tell whether they
\* are.
ReadComposeStep(exh, ra, rb) ==
    IF ~exh
    THEN IF ra.err = "EOF"
         THEN [exhausted |-> TRUE, callsA |-> TRUE, callsB |-> TRUE, res |-> rb]
         ELSE [exhausted |-> FALSE, callsA |-> TRUE, callsB |-> FALSE, res |-> ra]
    ELSE [exhausted |-> TRUE, callsA |-> FALSE, callsB |-> TRUE, res |-> rb]

HistEntry(read, src, r) ==
    [read |-> read, src |-> src, n |-> r.n, err |-> r.err, bytes |-> r.bytes]

\* One read of the composed reader with a buffer of length len
ComposeRead ==
    /\ cReads < MaxComposeReads
    /\ cReads' = cReads + 1
    /\ \E len \in 1..MaxReadBuf :
        LET ra == SrcRead(cA, len)
            rb == SrcRead(cB, len)
            st == ReadComposeStep(exhausted, ra, rb)
        IN /\ exhausted' = st.exhausted
           /\ cA' = IF st.callsA THEN ra.next ELSE cA
           /\ cB' = IF st.callsB THEN rb.next ELSE cB
           /\ cHist' = cHist
                 \o (IF st.callsA THEN <<HistEntry(cReads + 1, "A", ra)>> ELSE <<>>)
                 \o (IF st.callsB THEN <<HistEntry(cReads + 1, "B", rb)>> ELSE <<>>)
           /\ cN' = st.res.n
           /\ cErr' = st.res.err
           /\ cBytes' = st.res.bytes
    /\ UNCHANGED notCompose

\* ========================================================================
\* ComposeReaders
\* ========================================================================
\* The readers given to ComposeReaders do not fail
ReaderSet == {s \in Sources(MaxReaderData) : ~s.fail}

RECURSIVE Concat(_, _)
Concat(rs, i) == IF i > Len(rs) THEN <<>> ELSE rs[i].data \o Concat(rs, i + 1)

ReadersInit ==
    /\ readers \in UNION {[1..k -> ReaderSet] : k \in 0..MaxReaders}
    /\ idx = 0
    /\ crContent = Concat(readers, 1)
    /\ crOut = <<>>
    /\ crN = 0
    /\ crErr = "nil"

ReadersIdle ==
    /\ readers = <<>>
    /\ idx = 0
    /\ crContent = <<>>
    /\ crOut = <<>>
    /\ crN = 0
    /\ crErr = "nil"

\* One read of the reader ComposeReaders returns, by a caller that reads
\* until it is told end-of-stream. Readers are numbered from 1: the closure's
\* idx counts the readers left behind.
ComposeReadersRead ==
    /\ crErr # "EOF"
    /\ \E len \in 1..MaxReadBuf :
        IF idx >= Len(readers)
        THEN /\ crN' = 0
             /\ crErr' = "EOF"
             /\ UNCHANGED <<readers, idx, crOut>>
        ELSE LET r == SrcRead(readers[idx + 1], len)
                 after == [readers EXCEPT ![idx + 1] = r.next]
             IN IF r.err = "EOF"
                THEN /\ idx' = idx + 1
                     /\ IF idx + 1 >= Len(readers)
                        THEN /\ crN' = r.n
                             /\ crErr' = "EOF"
                             /\ crOut' = crOut \o r.bytes
                             /\ readers' = after
                        ELSE IF r.n = 0
                        THEN LET r2 == SrcRead(after[idx + 2], len)
                             IN /\ crN' = r2.n
                                /\ crErr' = r2.err
                                /\ crOut' = crOut \o r2.bytes
                                /\ readers' = [after EXCEPT ![idx + 2] = r2.next]
                        ELSE /\ crN' = r.n
                             /\ crErr' = r.err
                             /\ crOut' = crOut \o r.bytes
                             /\ readers' = after
                ELSE /\ crN' = r.n
                     /\ crErr' = r.err
                     /\ crOut' = crOut \o r.bytes
                     /\ readers' = after
                     /\ UNCHANGED idx
    /\ UNCHANGED crContent
    /\ UNCHANGED notReaders

\* ========================================================================
\* ReadFunc.Map, ReadFunc.Filter, FilterReader
\* ========================================================================
\* What the caller's buffer holds where the source wrote nothing
Stale == "z"

MapInit ==
    /\ mkind \in {"Map", "Filter", "FilterReader"}
    /\ mfn \in Transforms \cup Predicates
    /\ mkind = "Filter" <=> mfn \in Predicates
    /\ mBuf0 = <<>>
    /\ mBuf = <<>>
    /\ mSrcN = 0
    /\ mSrcErr = "nil"
    /\ mCalls = <<>>
    /\ mN = 0
    /\ mErr = "nil"
    /\ mapc = "start"

MapIdle ==
    /\ mkind = "Map"
    /\ mfn = "swap"
    /\ mBuf0 = <<>>
    /\ mBuf = <<>>
    /\ mSrcN = 0
    /\ mSrcErr = "nil"
    /\ mCalls = <<>>
    /\ mN = 0
    /\ mErr = "nil"
    /\ mapc = "start"

\* n, err := f(p): the wrapped source puts n bytes at the start of a buffer
\* of any length and returns any status
MapReadSource ==
    /\ mapc = "start"
    /\ \E len \in 0..MaxReadBuf :
        \E n \in 0..len :
            \E bytes \in [1..n -> Bytes] :
                mBuf0' = [i \in 1..len |-> IF i <= n THEN bytes[i] ELSE Stale]
                /\ mSrcN' = n
    /\ mSrcErr' \in Statuses
    /\ mBuf' = mBuf0'
    /\ mapc' = "filled"
    /\ UNCHANGED <<mkind, mfn, mCalls, mN, mErr>>
    /\ UNCHANGED notMap

\* copy(dst, src): min(len(dst), len(src)) elements are copied
Copy(dst, src) == [i \in 1..Len(dst) |-> IF i <= Len(src) THEN src[i] ELSE dst[i]]

\* A Map that transforms only what a read without failure returned
MapAppliesOnSuccess(n, err) == n > 0 /\ err # "err"

\* if n > 0
MapApplies(n, err) == n > 0

\* ReadFunc.Map: transformed := transform(p[:n]); copy(p, transformed)
MapReadApply ==
    /\ mkind = "Map"
    /\ mapc = "filled"
    /\ IF MapApplies(mSrcN, mSrcErr)
       THEN /\ mCalls' = Append(mCalls, SubSeq(mBuf0, 1, mSrcN))
            /\ mBuf' = Copy(mBuf0, Transform(mfn, SubSeq(mBuf0, 1, mSrcN)))
       ELSE UNCHANGED <<mCalls, mBuf>>
    /\ mN' = mSrcN
    /\ mErr' = mSrcErr
    /\ mapc' = "returned"
    /\ UNCHANGED <<mkind, mfn, mBuf0, mSrcN, mSrcErr>>
    /\ UNCHANGED notMap

\* FilterReader: filtered := filter(p[:n]); copy(p, filtered)
FilterReaderApply ==
    /\ mkind = "FilterReader"
    /\ mapc = "filled"
    /\ IF mSrcN > 0
       THEN /\ mCalls' = Append(mCalls, SubSeq(mBuf0, 1, mSrcN))
            /\ mBuf' = Copy(mBuf0, Transform(mfn, SubSeq(mBuf0, 1, mSrcN)))
       ELSE UNCHANGED <<mCalls, mBuf>>
    /\ mN' = mSrcN
    /\ mErr' = mSrcErr
    /\ mapc' = "returned"
    /\ UNCHANGED <<mkind, mfn, mBuf0, mSrcN, mSrcErr>>
    /\ UNCHANGED notMap

RECURSIVE FilterInPlaceCounting(_, _, _, _, _)
\* A Filter that counts the bytes it keeps and does not move them
FilterInPlaceCounting(pred, p, n, i, j) ==
    IF i > n THEN [p |-> p, j |-> j - 1]
    ELSE IF Satisfies(pred, p[i])
    THEN FilterInPlaceCounting(pred, p, n, i + 1, j + 1)
    ELSE FilterInPlaceCounting(pred, p, n, i + 1, j)

RECURSIVE FilterInPlace(_, _, _, _, _)
\* for i := 0; i < n; i++ { if predicate(p[i]) { p[j] = p[i]; j++ } }
\* with i and j counted from 1: the buffer and the count after the loop
FilterInPlace(pred, p, n, i, j) ==
    IF i > n THEN [p |-> p, j |-> j - 1]
    ELSE IF Satisfies(pred, p[i])
    THEN FilterInPlace(pred, [p EXCEPT ![j] = p[i]], n, i + 1, j + 1)
    ELSE FilterInPlace(pred, p, n, i + 1, j)

\* ReadFunc.Filter: the bytes satisfying the predicate are moved to the front
FilterReadApply ==
    /\ mkind = "Filter"
    /\ mapc = "filled"
    /\ IF mSrcN > 0
       THEN LET out == FilterInPlace(mfn, mBuf0, mSrcN, 1, 1)
            IN /\ mBuf' = out.p
               /\ mN' = out.j
       ELSE /\ mN' = mSrcN
            /\ UNCHANGED mBuf
    /\ mErr' = mSrcErr
    /\ mapc' = "returned"
    /\ UNCHANGED <<mkind, mfn, mBuf0, mSrcN, mSrcErr, mCalls>>
    /\ UNCHANGED notMap

\* ========================================================================
\* Empty().Compose(X) beside X, for ReadFunc, WriteFunc and StringerFunc
\* ========================================================================
MaxIdentityCalls == 3

\* The strings a stringer returns, as sequences of characters
Strings == UNION {[1..k -> Bytes] : k \in 0..MaxLen}

NoResult == [n |-> 0, err |-> "nil", bytes |-> <<>>]

IdentityInit ==
    /\ ikind \in {"source", "sink", "stringer"}
    /\ iX \in Sources(MaxData)
    /\ ikind # "source" => iX = [data |-> <<>>, style |-> "separate", fail |-> FALSE]
    /\ iXd = iX
    /\ iExh = FALSE
    /\ iCalls = 0
    /\ iResC = NoResult
    /\ iResD = NoResult
    /\ iInvC = <<>>
    /\ iInvD = <<>>

IdentityIdle ==
    /\ ikind = "source"
    /\ iX = [data |-> <<>>, style |-> "separate", fail |-> FALSE]
    /\ iXd = iX
    /\ iExh = FALSE
    /\ iCalls = 0
    /\ iResC = NoResult
    /\ iResD = NoResult
    /\ iInvC = <<>>
    /\ iInvD = <<>>

\* ReadFunc.Empty: return 0, io.EOF; the buffer is not written
ReadEmpty(len) == [n |-> 0, err |-> "EOF", bytes |-> <<>>]

\* One read of Empty().Compose(X) and the same read of X
IdentityRead ==
    /\ ikind = "source"
    /\ iCalls < MaxIdentityCalls
    /\ iCalls' = iCalls + 1
    /\ \E len \in 1..MaxReadBuf :
        LET rb == SrcRead(iX, len)
            rd == SrcRead(iXd, len)
            st == ReadComposeStep(iExh, ReadEmpty(len), rb)
        IN /\ iExh' = st.exhausted
           /\ iX' = IF st.callsB THEN rb.next ELSE iX
           /\ iXd' = rd.next
           /\ iResC' = [n |-> st.res.n, err |-> st.res.err, bytes |-> st.res.bytes]
           /\ iResD' = [n |-> rd.n, err |-> rd.err, bytes |-> rd.bytes]
           /\ iInvC' = IF st.callsB THEN <<len>> ELSE <<>>
           /\ iInvD' = <<len>>
    /\ UNCHANGED ikind
    /\ UNCHANGED notIdentity

\* A WriteFunc.Empty that accepts no byte
WriteEmptyNothing(p) == [n |-> 0, err |-> "nil"]

\* WriteFunc.Empty: return len(p), nil
WriteEmpty(p) == [n |-> Len(p), err |-> "nil"]

\* One write through Empty().Compose(X) and the same write to X; r is what
\* X returns for p
IdentityWrite ==
    /\ ikind = "sink"
    /\ iCalls < MaxIdentityCalls
    /\ iCalls' = iCalls + 1
    /\ \E p \in Buffers :
        \E r \in SinkResults(Len(p)) :
            LET res == ComposeResult(WriteEmpty(p), r, Len(p))
            IN /\ iResC' = [n |-> res[1], err |-> res[2]]
               /\ iResD' = [n |-> r.n, err |-> r.err]
               /\ iInvC' = <<p>>
               /\ iInvD' = <<p>>
    /\ UNCHANGED <<ikind, iX, iXd, iExh>>
    /\ UNCHANGED notIdentity

\* StringerFunc.Empty: return ""
StringerEmpty == <<>>

\* StringerFunc.Compose: return f() + other()
StringerCompose(a, b) == a \o b

\* One call of Empty().Compose(X) and the same call of X; s is what X returns
IdentityString ==
    /\ ikind = "stringer"
    /\ iCalls < MaxIdentityCalls
    /\ iCalls' = iCalls + 1
    /\ \E s \in Strings :
        /\ iResC' = [s |-> StringerCompose(StringerEmpty, s)]
        /\ iResD' = [s |-> s]
    /\ iInvC' = <<"call">>
    /\ iInvD' = <<"call">>
    /\ UNCHANGED <<ikind, iX, iXd, iExh>>
    /\ UNCHANGED notIdentity

\* ========================================================================
\* HandlerFunc.WithLogging, WithAuth, WithCORS, Recover and their chains
\* ========================================================================
MaxChain == 3
MaxHandlerOps == 2

Layers == {"Logging", "Auth", "CORS", "Recover"}

Chains == UNION {[1..k -> Layers] : k \in 0..MaxChain}

OpPanic == [op |-> "Panic", n |-> 0, s |-> "boom"]
OpCall == [op |-> "call", n |-> 0, s |-> ""]
OpLog(line) == [op |-> "log", n |-> 0, s |-> line]
OpHeader(name) == [op |-> "Header", n |-> 0, s |-> name]

\* What h does: it writes a status or a body, and it may end by a panic
ChainHandlers ==
    {h \in UNION {[1..k -> {OpWriteHeader(StatusOK), OpWrite("a"), OpPanic}] :
                    k \in 0..MaxHandlerOps} :
        \A i \in 1..(Len(h) - 1) : h[i] # OpPanic}

\* The position of h below the layers
Base == Len(mwChain) + 1

ChainInit ==
    /\ mwChain \in Chains
    /\ mwMethod \in {"GET", "OPTIONS"}
    /\ mwAuthOk \in BOOLEAN
    /\ mwProg \in ChainHandlers
    /\ mwDepth = 1
    /\ mwPhase = "call"
    /\ mwPc = 1
    /\ mwEv = <<Call(1, OpCall)>>

ChainIdle ==
    /\ mwChain = <<>>
    /\ mwMethod = "GET"
    /\ mwAuthOk = TRUE
    /\ mwProg = <<>>
    /\ mwDepth = 1
    /\ mwPhase = "call"
    /\ mwPc = 1
    /\ mwEv = <<Call(1, OpCall)>>

\* The layer in control is the combinator l and is in phase ph
LayerAt(l, ph) ==
    /\ mwPhase = ph
    /\ mwDepth \in DOMAIN mwChain
    /\ mwChain[mwDepth] = l

\* f(w, r): the layer in control calls the handler it wraps
CallInner(events) ==
    /\ mwEv' = mwEv \o events \o <<Call(mwDepth + 1, OpCall)>>
    /\ mwDepth' = mwDepth + 1
    /\ UNCHANGED <<mwChain, mwMethod, mwAuthOk, mwProg, mwPhase, mwPc>>

\* The layer in control returns to its caller
ReturnOuter(events) ==
    /\ mwEv' = mwEv \o events
    /\ mwDepth' = mwDepth - 1
    /\ mwPhase' = "return"
    /\ UNCHANGED <<mwChain, mwMethod, mwAuthOk, mwProg, mwPc>>

\* http.Error(w, msg, code): the status, then the message and a newline
HttpError(who, msg, code) ==
    <<Call(who, OpWriteHeader(code)), Call(who, OpWrite(msg \o "\n"))>>

\* WithLogging: logger("Request: ..."), then f(w, r)
WithLoggingBefore ==
    /\ LayerAt("Logging", "call")
    /\ CallInner(<<Call(mwDepth, OpLog("Request"))>>)
    /\ UNCHANGED notChain

\* WithLogging: logger("Completed: ...") once f has returned
WithLoggingAfter ==
    /\ LayerAt("Logging", "return")
    /\ ReturnOuter(<<Call(mwDepth, OpLog("Completed"))>>)
    /\ UNCHANGED notChain

\* A WithAuth that lets every request through
AuthenticatedAlways == TRUE

\* authenticate(r)
Authenticated == mwAuthOk

\* WithAuth: if !authenticate(r) { http.Error(...); return }; f(w, r)
WithAuthCheck ==
    /\ LayerAt("Auth", "call")
    /\ IF ~Authenticated
       THEN ReturnOuter(HttpError(mwDepth, "Unauthorized", StatusUnauthorized))
       ELSE CallInner(<<>>)
    /\ UNCHANGED notChain

CORSHeaders(who) ==
    <<Call(who, OpHeader("Access-Control-Allow-Origin")),
      Call(who, OpHeader("Access-Control-Allow-Methods")),
      Call(who, OpHeader("Access-Control-Allow-Headers"))>>

\* WithCORS: the three headers; OPTIONS is answered with 200, any other
\* method goes to f(w, r)
WithCORSCheck ==
    /\ LayerAt("CORS", "call")
    /\ IF mwMethod = "OPTIONS"
       THEN ReturnOuter(CORSHeaders(mwDepth)
                        \o <<Call(mwDepth, OpWriteHeader(StatusOK))>>)
       ELSE CallInner(CORSHeaders(mwDepth))
    /\ UNCHANGED notChain

\* Recover: defer func() {...}(); f(w, r)
RecoverCall ==
    /\ LayerAt("Recover", "call")
    /\ CallInner(<<>>)
    /\ UNCHANGED notChain

\* Recover's deferred function: recover() is nil after a normal return, and
\* is the panic value, answered with a 500, after a panic
RecoverDeferred ==
    /\ \/ LayerAt("Recover", "return") /\ ReturnOuter(<<>>)
       \/ /\ LayerAt("Recover", "panic")
          /\ ReturnOuter(HttpError(mwDepth, "Internal Server Error: boom",
                                   StatusInternalServerError))
    /\ UNCHANGED notChain

\* WithAuth and WithCORS have nothing left to do once f has returned
LayerReturn ==
    /\ LayerAt("Auth", "return") \/ LayerAt("CORS", "return")
    /\ ReturnOuter(<<>>)
    /\ UNCHANGED notChain

\* A panic passes through WithLogging, WithAuth and WithCORS: none has a
\* deferred function
PanicPropagates ==
    /\ LayerAt("Logging", "panic") \/ LayerAt("Auth", "panic") \/ LayerAt("CORS", "panic")
    /\ mwDepth' = mwDepth - 1
    /\ UNCHANGED <<mwChain, mwMethod, mwAuthOk, mwProg, mwPhase, mwPc, mwEv>>
    /\ UNCHANGED notChain

\* h performs its next operation
BaseOp ==
    /\ mwPhase = "call"
    /\ mwDepth = Base
    /\ mwPc <= Len(mwProg)
    /\ IF mwProg[mwPc] = OpPanic
       THEN /\ mwPhase' = "panic"
            /\ mwDepth' = mwDepth - 1
            /\ UNCHANGED <<mwEv, mwPc>>
       ELSE /\ mwEv' = Append(mwEv, Call(Base, mwProg[mwPc]))
            /\ mwPc' = mwPc + 1
            /\ UNCHANGED <<mwPhase, mwDepth>>
    /\ UNCHANGED <<mwChain, mwMethod, mwAuthOk, mwProg>>
    /\ UNCHANGED notChain

\* h returns
BaseReturn ==
    /\ mwPhase = "call"
    /\ mwDepth = Base
    /\ mwPc > Len(mwProg)
    /\ ReturnOuter(<<>>)
    /\ UNCHANGED notChain

\* ServeHTTP returns to its caller, or the panic reaches it
ServeEnds ==
    /\ mwDepth = 0
    /\ mwPhase \in {"return", "panic"}
    /\ mwPhase' = IF mwPhase = "return" THEN "done" ELSE "crashed"
    /\ UNCHANGED <<mwChain, mwMethod, mwAuthOk, mwProg, mwDepth, mwPc, mwEv>>
    /\ UNCHANGED notChain

\* ========================================================================
\* ReadFunc.WithTimeout
\* ========================================================================
MaxTimedReads == 2

TimedReads == 1..MaxTimedReads

\* What an invocation of f returns: bytes, end-of-stream or a failure; call
\* names the invocation
TimedResults(k) ==
    {[n |-> 1, err |-> "nil", call |-> k],
     [n |-> 0, err |-> "EOF", call |-> k],
     [n |-> 0, err |-> "err", call |-> k]}

NoRead == [n |-> 0, err |-> "none", call |-> 0]

\* return 0, errors.New("read timeout")
ReadTimeout == [n |-> 0, err |-> "read timeout", call |-> 0]

RtInit ==
    /\ rtReads = 0
    /\ rtMain = "idle"
    /\ rtG = [k \in TimedReads |-> "none"]
    /\ rtCh = [k \in TimedReads |-> <<>>]
    /\ rtFired = [k \in TimedReads |-> FALSE]
    /\ rtSrc = [k \in TimedReads |-> NoRead]
    /\ rtSrcCalls = [k \in TimedReads |-> 0]
    /\ rtRet = [k \in TimedReads |-> NoRead]
    /\ rtOrder = [k \in TimedReads |-> <<>>]
    /\ rtWaited = [k \in TimedReads |-> FALSE]

RtIdle == RtInit

\* ch := make(chan result, 1)
ChanCap == 1

\* Reads that share one channel
ChanOfShared(k) == 1

\* Each read makes its own channel
ChanOf(k) == k

\* The caller is waiting in the select of read k's channel
ParkedOn(k) == rtMain = "parked" /\ ChanOf(rtReads) = ChanOf(k)

\* The read in progress returns r
RtReturn(r) ==
    /\ rtRet' = [rtRet EXCEPT ![rtReads] = r]
    /\ rtMain' = "idle"

\* ch := make(...); go func() {...}()
RtStart ==
    /\ rtMain = "idle"
    /\ rtReads < MaxTimedReads
    /\ rtReads' = rtReads + 1
    /\ rtG' = [rtG EXCEPT ![rtReads + 1] = "running"]
    /\ rtMain' = "spawned"
    /\ UNCHANGED <<rtCh, rtFired, rtSrc, rtSrcCalls, rtRet, rtOrder, rtWaited>>
    /\ UNCHANGED notRt

\* time.After(timeout): the timer starts when the select is entered
RtArm ==
    /\ rtMain = "spawned"
    /\ rtMain' = "armed"
    /\ UNCHANGED <<rtReads, rtG, rtCh, rtFired, rtSrc, rtSrcCalls, rtRet, rtOrder, rtWaited>>
    /\ UNCHANGED notRt

\* select: one of the ready cases is taken; with none ready the caller waits
RtPoll ==
    /\ rtMain = "armed"
    /\ LET c == ChanOf(rtReads)
       IN \/ /\ rtCh[c] # <<>>
             /\ RtReturn(Head(rtCh[c]))
             /\ rtCh' = [rtCh EXCEPT ![c] = Tail(rtCh[c])]
             /\ UNCHANGED rtWaited
          \/ /\ rtFired[rtReads]
             /\ RtReturn(ReadTimeout)
             /\ UNCHANGED <<rtCh, rtWaited>>
          \/ /\ rtCh[c] = <<>>
             /\ ~rtFired[rtReads]
             /\ rtMain' = "parked"
             /\ rtWaited' = [rtWaited EXCEPT ![rtReads] = TRUE]
             /\ UNCHANGED <<rtCh, rtRet>>
    /\ UNCHANGED <<rtReads, rtG, rtFired, rtSrc, rtSrcCalls, rtOrder>>
    /\ UNCHANGED notRt

\* n, err := f(p) in the goroutine of read k
RtSourceReturns(k) ==
    /\ rtG[k] = "running"
    /\ \E r \in TimedResults(k) : rtSrc' = [rtSrc EXCEPT ![k] = r]
    /\ rtSrcCalls' = [rtSrcCalls EXCEPT ![k] = @ + 1]
    /\ rtG' = [rtG EXCEPT ![k] = "sending"]
    /\ UNCHANGED <<rtReads, rtMain, rtCh, rtFired, rtRet, rtOrder, rtWaited>>
    /\ UNCHANGED notRt

\* An event of read k that happens before read k has returned is recorded
Ordered(k, ev) ==
    IF rtReads = k /\ rtMain # "idle"
    THEN [rtOrder EXCEPT ![k] = Append(@, ev)]
    ELSE rtOrder

\* A send on a channel without buffer: it needs the caller waiting
CanSendUnbuffered(k) == ParkedOn(k)

\* A send proceeds when the caller is waiting or the buffer has room
CanSend(k) == ParkedOn(k) \/ Len(rtCh[ChanOf(k)]) < ChanCap

\* ch <- result{n, err}: to the waiting caller, or into the buffer
RtSend(k) ==
    /\ rtG[k] = "sending"
    /\ CanSend(k)
    /\ IF ParkedOn(k)
       THEN /\ RtReturn(rtSrc[k])
            /\ UNCHANGED rtCh
       ELSE /\ rtCh' = [rtCh EXCEPT ![ChanOf(k)] = Append(@, rtSrc[k])]
            /\ UNCHANGED <<rtRet, rtMain>>
    /\ rtG' = [rtG EXCEPT ![k] = "done"]
    /\ rtOrder' = Ordered(k, "deliver")
    /\ UNCHANGED <<rtReads, rtFired, rtSrc, rtSrcCalls, rtWaited>>
    /\ UNCHANGED notRt

\* The timer of the read in progress fires; a waiting caller takes the case
RtTimerFires ==
    /\ rtMain \in {"armed", "parked"}
    /\ ~rtFired[rtReads]
    /\ rtFired' = [rtFired EXCEPT ![rtReads] = TRUE]
    /\ rtOrder' = Ordered(rtReads, "fire")
    /\ IF rtMain = "parked"
       THEN RtReturn(ReadTimeout)
       ELSE UNCHANGED <<rtRet, rtMain>>
    /\ UNCHANGED <<rtReads, rtG, rtCh, rtSrc, rtSrcCalls, rtWaited>>
    /\ UNCHANGED notRt

\* ========================================================================
\* WithMetrics
\* ========================================================================
MaxCallers == 2
MaxElapsed == 1

Callers == 1..MaxCallers

\* What the wrapped writer returns for a buffer of one byte
MetricResults == [n : 0..1, err : {"nil", "e1"}]

NoWrite == [n |-> 0, err |-> "none"]

MetricsInit ==
    /\ wmPc = [c \in Callers |-> "idle"]
    /\ wmRes = [c \in Callers |-> NoWrite]
    /\ wmRet = [c \in Callers |-> NoWrite]
    /\ wmTmp = [c \in Callers |-> 0]
    /\ wmMu = 0
    /\ TotalBytes = 0
    /\ TotalWrites = 0
    /\ TotalDuration = 0
    /\ ErrorCount = 0

MetricsIdle == MetricsInit

\* Caller c moves from pc to next
WmGoto(c, pc, next) ==
    /\ wmPc[c] = pc
    /\ wmPc' = [wmPc EXCEPT ![c] = next]

\* start := time.Now(); n, err := w.Write(p)
WmWrite(c) ==
    /\ WmGoto(c, "idle", "lock")
    /\ \E r \in MetricResults : wmRes' = [wmRes EXCEPT ![c] = r]
    /\ UNCHANGED <<wmRet, wmTmp, wmMu, TotalBytes, TotalWrites, TotalDuration, ErrorCount>>
    /\ UNCHANGED notMetrics

\* A lock that is never held
WmMuFreeAlways == TRUE

\* metrics.mu is free
WmMuFree == wmMu = 0

\* metrics.mu.Lock()
WmLock(c) ==
    /\ WmGoto(c, "lock", "bytesLoad")
    /\ WmMuFree
    /\ wmMu' = c
    /\ UNCHANGED <<wmRes, wmRet, wmTmp, TotalBytes, TotalWrites, TotalDuration, ErrorCount>>
    /\ UNCHANGED notMetrics

\* The load of a counter by the statement at pc
WmLoad(c, pc, next, counter) ==
    /\ WmGoto(c, pc, next)
    /\ wmTmp' = [wmTmp EXCEPT ![c] = counter]
    /\ UNCHANGED <<wmRes, wmRet, wmMu, TotalBytes, TotalWrites, TotalDuration, ErrorCount>>
    /\ UNCHANGED notMetrics

\* metrics.TotalBytes += int64(n)
WmBytes(c) ==
    \/ WmLoad(c, "bytesLoad", "bytesStore", TotalBytes)
    \/ /\ WmGoto(c, "bytesStore", "writesLoad")
       /\ TotalBytes' = wmTmp[c] + wmRes[c].n
       /\ UNCHANGED <<wmRes, wmRet, wmTmp, wmMu, TotalWrites, TotalDuration, ErrorCount>>
       /\ UNCHANGED notMetrics

\* metrics.TotalWrites++
WmWrites(c) ==
    \/ WmLoad(c, "writesLoad", "writesStore", TotalWrites)
    \/ /\ WmGoto(c, "writesStore", "duration")
       /\ TotalWrites' = wmTmp[c] + 1
       /\ UNCHANGED <<wmRes, wmRet, wmTmp, wmMu, TotalBytes, TotalDuration, ErrorCount>>
       /\ UNCHANGED notMetrics

\* metrics.TotalDuration += time.Since(start), bounded
WmDuration(c) ==
    /\ WmGoto(c, "duration", IF wmRes[c].err # "nil" THEN "errLoad" ELSE "unlock")
    /\ \E d \in 0..MaxElapsed :
        TotalDuration' = IF TotalDuration + d > MaxCallers * MaxElapsed
                         THEN TotalDuration ELSE TotalDuration + d
    /\ UNCHANGED <<wmRes, wmRet, wmTmp, wmMu, TotalBytes, TotalWrites, ErrorCount>>
    /\ UNCHANGED notMetrics

\* if err != nil { metrics.Errors++ }
WmErrors(c) ==
    \/ WmLoad(c, "errLoad", "errStore", ErrorCount)
    \/ /\ WmGoto(c, "errStore", "unlock")
       /\ ErrorCount' = wmTmp[c] + 1
       /\ UNCHANGED <<wmRes, wmRet, wmTmp, wmMu, TotalBytes, TotalWrites, TotalDuration>>
       /\ UNCHANGED notMetrics

\* metrics.mu.Unlock(); return n, err
WmUnlock(c) ==
    /\ WmGoto(c, "unlock", "returned")
    /\ wmMu' = 0
    /\ wmRet' = [wmRet EXCEPT ![c] = wmRes[c]]
    /\ UNCHANGED <<wmRes, wmTmp, TotalBytes, TotalWrites, TotalDuration, ErrorCount>>
    /\ UNCHANGED notMetrics

\* ========================================================================
\* h.WithTimeout(d).Recover(): a panic of h on the goroutine of WithTimeout
\* ========================================================================
GuardInit ==
    /\ gpProg \in ChainHandlers
    /\ gpIdx = 1
    /\ gpH = "none"
    /\ gpMain = "recover"
    /\ gpPanicOn = "none"
    /\ gpFired = FALSE
    /\ gpTimedOut = FALSE
    /\ gpWroteHeader = FALSE
    /\ gpDone = FALSE
    /\ gpProcess = "running"
    /\ gpUnder = <<>>

GuardIdle ==
    /\ gpProg = <<>>
    /\ gpIdx = 1
    /\ gpH = "none"
    /\ gpMain = "recover"
    /\ gpPanicOn = "none"
    /\ gpFired = FALSE
    /\ gpTimedOut = FALSE
    /\ gpWroteHeader = FALSE
    /\ gpDone = FALSE
    /\ gpProcess = "running"
    /\ gpUnder = <<>>

\* Recover's closure registers its deferred function and calls the handler
\* WithTimeout returned, which starts h on a goroutine of its own
GpRecoverCall ==
    /\ gpProcess = "running"
    /\ gpMain = "recover"
    /\ gpMain' = "select"
    /\ gpH' = "running"
    /\ UNCHANGED <<gpProg, gpIdx, gpPanicOn, gpFired, gpTimedOut, gpWroteHeader,
                   gpDone, gpProcess, gpUnder>>
    /\ UNCHANGED notGuard

\* The deadline of context.WithTimeout passes
GpDeadline ==
    /\ gpProcess = "running"
    /\ gpMain = "select"
    /\ ~gpFired
    /\ gpFired' = TRUE
    /\ UNCHANGED <<gpProg, gpIdx, gpH, gpMain, gpPanicOn, gpTimedOut,
                   gpWroteHeader, gpDone, gpProcess, gpUnder>>
    /\ UNCHANGED notGuard

\* h calls tw.Write or tw.WriteHeader
GpHandlerOp ==
    /\ gpProcess = "running"
    /\ gpH = "running"
    /\ gpIdx <= Len(gpProg)
    /\ gpProg[gpIdx] # OpPanic
    /\ gpIdx' = gpIdx + 1
    /\ IF gpTimedOut
       THEN UNCHANGED <<gpUnder, gpWroteHeader>>
       ELSE IF gpProg[gpIdx].op = "Write"
       THEN /\ gpUnder' = Append(gpUnder, Call("handler", gpProg[gpIdx]))
            /\ UNCHANGED gpWroteHeader
       ELSE /\ gpWroteHeader' = TRUE
            /\ gpUnder' = IF gpWroteHeader THEN gpUnder
                          ELSE Append(gpUnder, Call("handler", gpProg[gpIdx]))
    /\ UNCHANGED <<gpProg, gpH, gpMain, gpPanicOn, gpFired, gpTimedOut, gpDone, gpProcess>>
    /\ UNCHANGED notGuard

\* h panics: the panic unwinds the stack of the goroutine it is on, where
\* the only deferred call is close(done)
GpHandlerPanic ==
    /\ gpProcess = "running"
    /\ gpH = "running"
    /\ gpIdx <= Len(gpProg)
    /\ gpProg[gpIdx] = OpPanic
    /\ gpPanicOn' = "handler"
    /\ gpDone' = TRUE
    /\ gpH' = "unwound"
    /\ UNCHANGED <<gpProg, gpIdx, gpMain, gpFired, gpTimedOut, gpWroteHeader,
                   gpProcess, gpUnder>>
    /\ UNCHANGED notGuard

\* A panic that no deferred function of its goroutine recovers ends the
\* program
GpCrash ==
    /\ gpProcess = "running"
    /\ gpH = "unwound"
    /\ gpProcess' = "crashed"
    /\ UNCHANGED <<gpProg, gpIdx, gpH, gpMain, gpPanicOn, gpFired, gpTimedOut,
                   gpWroteHeader, gpDone, gpUnder>>
    /\ UNCHANGED notGuard

\* h returns; the deferred close(done) runs
GpHandlerReturn ==
    /\ gpProcess = "running"
    /\ gpH = "running"
    /\ gpIdx > Len(gpProg)
    /\ gpDone' = TRUE
    /\ gpH' = "finished"
    /\ UNCHANGED <<gpProg, gpIdx, gpMain, gpPanicOn, gpFired, gpTimedOut,
                   gpWroteHeader, gpProcess, gpUnder>>
    /\ UNCHANGED notGuard

\* select: case <-done returns; case <-ctx.Done() stores the flag
GpSelect ==
    /\ gpProcess = "running"
    /\ gpMain = "select"
    /\ \/ gpDone /\ gpMain' = "deferred" /\ UNCHANGED gpTimedOut
       \/ gpFired /\ gpMain' = "wait" /\ gpTimedOut' = TRUE
    /\ UNCHANGED <<gpProg, gpIdx, gpH, gpPanicOn, gpFired, gpWroteHeader, gpDone,
                   gpProcess, gpUnder>>
    /\ UNCHANGED notGuard

\* <-done, then tw.mu.Lock()
GpWaitDone ==
    /\ gpProcess = "running"
    /\ gpMain = "wait"
    /\ gpDone
    /\ gpMain' = "check"
    /\ UNCHANGED <<gpProg, gpIdx, gpH, gpPanicOn, gpFired, gpTimedOut,
                   gpWroteHeader, gpDone, gpProcess, gpUnder>>
    /\ UNCHANGED notGuard

\* if !tw.wroteHeader { 408 and its body }; tw.mu.Unlock()
GpTimeoutWrite ==
    /\ gpProcess = "running"
    /\ gpMain = "check"
    /\ gpUnder' = IF gpWroteHeader THEN gpUnder
                  ELSE gpUnder \o <<Call("timeout", OpWriteHeader(StatusRequestTimeout)),
                                    Call("timeout", OpWrite("Request timeout\n"))>>
    /\ gpMain' = "deferred"
    /\ UNCHANGED <<gpProg, gpIdx, gpH, gpPanicOn, gpFired, gpTimedOut,
                   gpWroteHeader, gpDone, gpProcess>>
    /\ UNCHANGED notGuard

\* Recover's deferred function: recover() returns the panic of the goroutine
\* it runs on, nil when that goroutine is not panicking
GpRecoverDeferred ==
    /\ gpProcess = "running"
    /\ gpMain = "deferred"
    /\ gpUnder' = IF gpPanicOn = "main"
                  THEN gpUnder \o HttpError("recover", "Internal Server Error: boom",
                                            StatusInternalServerError)
                  ELSE gpUnder
    /\ gpMain' = "returned"
    /\ UNCHANGED <<gpProg, gpIdx, gpH, gpPanicOn, gpFired, gpTimedOut,
                   gpWroteHeader, gpDone, gpProcess>>
    /\ UNCHANGED notGuard

LateIdle == RtIdle /\ MetricsIdle /\ GuardIdle

\* The machines added to the first four, at rest
RestIdle == ComposeIdle /\ ReadersIdle /\ MapIdle /\ IdentityIdle /\ ChainIdle /\ LateIdle

CoreIdle == HttpIdle /\ TakeIdle /\ RetryIdle /\ SinkIdle

EarlyIdle ==
    CoreIdle /\ ComposeIdle /\ ReadersIdle /\ MapIdle /\ IdentityIdle /\ ChainIdle

\* ========================================================================
\* Specifications
\* ========================================================================
Init == HttpInit /\ TakeIdle /\ RetryIdle /\ SinkIdle /\ RestIdle

Next ==
    \/ HandlerCall \/ HandlerLock \/ HandlerWrite \/ HandlerWriteHeader
    \/ HandlerSleep \/ HandlerWake \/ HandlerReturn
    \/ MainSelectDone \/ MainSelectTimeout \/ MainStore \/ MainWaitDone
    \/ MainLock \/ MainCheck \/ MainWriteHeader \/ MainWriteBody \/ MainUnlock
    \/ Tick

Spec == Init /\ [][Next]_vars

NextPrompt ==
    \/ HandlerCall \/ HandlerLock \/ HandlerWrite \/ HandlerWriteHeader
    \/ HandlerSleep \/ HandlerWake \/ HandlerReturn
    \/ MainSelectDone \/ MainSelectTimeout \/ MainStore \/ MainWaitDone
    \/ MainLock \/ MainCheck \/ MainWriteHeader \/ MainWriteBody \/ MainUnlock
    \/ TickPrompt

SpecPrompt == Init /\ [][NextPrompt]_vars

InitTake == TakeInit /\ HttpIdle /\ RetryIdle /\ SinkIdle /\ RestIdle

NextTake == TakeRead

SpecTake == InitTake /\ [][NextTake]_vars

InitRetry == RetryInit /\ HttpIdle /\ TakeIdle /\ SinkIdle /\ RestIdle

NextRetry == RetryAttempt \/ RetryExhausted

SpecRetry == InitRetry /\ [][NextRetry]_vars

InitSink == SinkInit /\ HttpIdle /\ TakeIdle /\ RetryIdle /\ RestIdle

NextSink ==
    \/ SinkWrite
    \/ ComposeInvoke \/ ComposeReturn
    \/ TeeInvoke \/ TeeReturn
    \/ TeeWriterInvoke \/ TeeWriterReturn
    \/ MapWrite \/ FilterWrite \/ FilterWriterWrite

SpecSink == InitSink /\ [][NextSink]_vars

InitCompose == ComposeInit /\ CoreIdle /\ ReadersIdle /\ MapIdle /\ IdentityIdle /\ ChainIdle /\ LateIdle

NextCompose == ComposeRead

SpecCompose == InitCompose /\ [][NextCompose]_vars

InitReaders == ReadersInit /\ CoreIdle /\ ComposeIdle /\ MapIdle /\ IdentityIdle /\ ChainIdle /\ LateIdle

NextReaders == ComposeReadersRead

SpecReaders == InitReaders /\ [][NextReaders]_vars

InitMap == MapInit /\ CoreIdle /\ ComposeIdle /\ ReadersIdle /\ IdentityIdle /\ ChainIdle /\ LateIdle

NextMap == MapReadSource \/ MapReadApply \/ FilterReaderApply \/ FilterReadApply

SpecMap == InitMap /\ [][NextMap]_vars

InitIdentity == IdentityInit /\ CoreIdle /\ ComposeIdle /\ ReadersIdle /\ MapIdle /\ ChainIdle /\ LateIdle

NextIdentity == IdentityRead \/ IdentityWrite \/ IdentityString

SpecIdentity == InitIdentity /\ [][NextIdentity]_vars

InitChain ==
    ChainInit /\ CoreIdle /\ ComposeIdle /\ ReadersIdle /\ MapIdle /\ IdentityIdle /\ LateIdle

NextChain ==
    \/ WithLoggingBefore
    \/ WithLoggingAfter
    \/ WithAuthCheck
    \/ WithCORSCheck
    \/ RecoverCall
    \/ RecoverDeferred
    \/ LayerReturn
    \/ PanicPropagates
    \/ BaseOp
    \/ BaseReturn
    \/ ServeEnds

SpecChain == InitChain /\ [][NextChain]_vars

InitRt == RtInit /\ EarlyIdle /\ MetricsIdle /\ GuardIdle

NextRt ==
    \/ RtStart
    \/ RtArm
    \/ RtPoll
    \/ RtTimerFires
    \/ \E k \in TimedReads : RtSourceReturns(k)
    \/ \E k \in TimedReads : RtSend(k)

SpecRt == InitRt /\ [][NextRt]_vars

\* The goroutines are scheduled: a send that can proceed does proceed
SpecRtFair == SpecRt /\ \A k \in TimedReads : WF_vars(RtSend(k))

InitMetrics == MetricsInit /\ EarlyIdle /\ RtIdle /\ GuardIdle

NextMetrics ==
    \E c \in Callers :
        \/ WmWrite(c)
        \/ WmLock(c)
        \/ WmBytes(c)
        \/ WmWrites(c)
        \/ WmDuration(c)
        \/ WmErrors(c)
        \/ WmUnlock(c)

SpecMetrics == InitMetrics /\ [][NextMetrics]_vars

InitGuard == GuardInit /\ EarlyIdle /\ RtIdle /\ MetricsIdle

NextGuard ==
    \/ GpRecoverCall
    \/ GpDeadline
    \/ GpHandlerOp
    \/ GpHandlerPanic
    \/ GpCrash
    \/ GpHandlerReturn
    \/ GpSelect
    \/ GpWaitDone
    \/ GpTimeoutWrite
    \/ GpRecoverDeferred

SpecGuard == InitGuard /\ [][NextGuard]_vars

\* ------------------------------------------------------------------------
\* HandlerFunc.WithTimeout: properties
\* ------------------------------------------------------------------------
TimeoutCalls == {i \in DOMAIN under : under[i].who = "timeout"}
HandlerCalls == {i \in DOMAIN under : under[i].who = "handler"}

\* The handler goroutine takes a step
HandlerMoves == <<hidx, hstep>>' # <<hidx, hstep>>

\* C1: when the deadline fires first (the handler finishes after it), the
\* timeout path writes its 408 status and body to the underlying response only
\* if no call of the handler, WriteHeader or Write, reached it before.
C1_TimeoutWritesOnlyIfHandlerSilent ==
    finishedAt > timeout =>
        \A i \in TimeoutCalls : \A j \in HandlerCalls : j > i

\* C2: once the flag is set, every Write or WriteHeader the handler starts
\* is rejected at once (Write returns the handler-timeout error, WriteHeader
\* is dropped) and leaves the underlying response writer untouched.
C2_WritesAfterTimeoutRejected ==
    [][(/\ timedOut = 1
        /\ hstep = "call"
        /\ AtOp({"Write", "WriteHeader"})
        /\ HandlerMoves)
       => (/\ under' = under
           /\ hres' = Append(hres, Rejection(prog[hidx]))
           /\ hidx' = hidx + 1
           /\ hstep' = "call"
           /\ mu' = mu
           /\ wroteHeader' = wroteHeader)]_vars

C2_Witness ==
    /\ timedOut = 1
    /\ \E i \in DOMAIN hres : hres[i] = "ErrHandlerTimeout"
    /\ \E i \in DOMAIN hres : hres[i] = "dropped"

\* C3: the handler returned by WithTimeout returns only after the handler
\* goroutine has closed done, on the completed and on the timed-out path.
C3_ReturnsAfterHandler ==
    mpc = "returned" => (done /\ hstep = "done")

C3_Witness ==
    /\ mpc = "returned"
    /\ timedOut = 1
    /\ finishedAt > timeout

\* The handler sleeps past the deadline before it does anything else
SleepsPastDeadline ==
    /\ Len(prog) >= 1
    /\ prog[1].op = "Sleep"
    /\ prog[1].n > timeout

C5_CompletedHandlerNeverTimedOut ==
    (finishedAt >= 0 /\ finishedAt < timeout) =>
        (timedOut = 0 /\ TimeoutCalls = {} /\ mpc \in {"select", "returned"})

\* ------------------------------------------------------------------------
\* ReadFunc.Take: properties
\* ------------------------------------------------------------------------
\* C6: over any sequence of reads with buffers of any sizes, the total number
\* of bytes the adapter returned never exceeds the limit (nothing is returned
\* for a limit below zero).
C6_TotalWithinLimit ==
    /\ total <= (IF limit > 0 THEN limit ELSE 0)
    /\ tN >= 0

C6_Witness ==
    /\ limit = MaxLimit
    /\ total = limit
    /\ tReads >= 2
    /\ srcCalls = tReads

\* C7: once the bytes returned have reached the limit (from the start for a
\* limit <= 0), every read returns (0, end-of-stream) and the wrapped source
\* is not invoked.
C7_ExhaustedReadsEOF ==
    [][(tReads' = tReads + 1 /\ total >= limit)
       => (/\ tN' = 0
           /\ tErr' = "EOF"
           /\ srcCalls' = srcCalls
           /\ total' = total)]_vars

C7_Witness ==
    /\ limit > 0
    /\ total = limit
    /\ srcCalls < tReads
    /\ tN = 0
    /\ tErr = "EOF"

\* ------------------------------------------------------------------------
\* ReadFunc.Retry: properties
\* ------------------------------------------------------------------------
\* C8: for k >= 0, a read through Retry(k) stops invoking the source at the
\* first non-failure result and returns that result, after exactly j+1
\* invocations when the source failed j <= k times before; when the source
\* fails every time it makes exactly k+1 invocations and returns the last
\* failure.
C8_RetryAttempts ==
    maxRetries >= 0 =>
        /\ \A j \in 1..(Len(rLog) - 1) : IsFailure(rLog[j])
        /\ Len(rLog) <= maxRetries + 1
        /\ rpc = "returned" =>
            /\ Len(rLog) >= 1
            /\ LET last == rLog[Len(rLog)]
               IN IF IsFailure(last)
                  THEN /\ Len(rLog) = maxRetries + 1
                       /\ rErr = last.err
                       /\ rN = 0
                  ELSE /\ rErr = last.err
                       /\ rN = last.n

C8_Witness ==
    /\ maxRetries = 2
    /\ rpc = "returned"
    /\ Len(rLog) = 3
    /\ rLog[1].err = "e1"
    /\ rLog[2].err = "e2"
    /\ rLog[3] = [n |-> 1, err |-> "EOF"]
    /\ rN = 1
    /\ rErr = "EOF"

\* ------------------------------------------------------------------------
\* WriteFunc.Compose, WriteFunc.Tee, TeeWriter: properties
\* ------------------------------------------------------------------------
ComposeReturned == skind = "Compose" /\ spc = "returned"

FirstUnderwrites == Len(sInv) >= 1 /\ sInv[1].n < Len(sbuf)

\* The error reported for a sink's result that is no full success
ErrorOf(r) == IF r.err # "nil" THEN r.err ELSE "ErrShortWrite"

\* C9 (as stated): when the first sink of Compose underwrites, its underwrite
\* is the result reported and the second sink is not invoked for that write.
C9_UnderwriteSkipsSecond ==
    (ComposeReturned /\ FirstUnderwrites) =>
        /\ sN = sInv[1].n
        /\ sErr = ErrorOf(sInv[1])
        /\ Len(sInv) = 1

\* C9 (amended): Compose always invokes both sinks, first then second, with
\* the same buffer; when the first sink underwrites, its underwrite is the
\* result reported, unless it returned no error and the second sink returned
\* one: then the second sink's count and error are reported.
C9_UnderwriteAfterBothSinks ==
    ComposeReturned =>
        /\ Len(sInv) = 2
        /\ \A i \in 1..2 : sInv[i].sink = i /\ sInv[i].p = sbuf
        /\ FirstUnderwrites =>
            IF sInv[1].err = "nil" /\ sInv[2].err # "nil"
            THEN sN = sInv[2].n /\ sErr = sInv[2].err
            ELSE sN = sInv[1].n /\ sErr = ErrorOf(sInv[1])

C9_Witness ==
    /\ ComposeReturned
    /\ FirstUnderwrites
    /\ sInv[1].err = "nil"
    /\ sInv[2].err = "e2"
    /\ sInv[2].n # sInv[1].n
    /\ sErr = "e2"

FullSuccess(r) == r.err = "nil" /\ r.n = Len(sbuf)

\* C10: Tee and TeeWriter invoke the sinks in order, the original sink first,
\* stop at the first sink that returns an error or a count other than the
\* buffer length, return that sink's count with its error (or a short-write
\* error), and return (len(buffer), no error) when every sink fully succeeds.
C10_TeeFailsFast ==
    skind \in {"Tee", "TeeWriter"} =>
        /\ \A i \in DOMAIN sInv : sInv[i].sink = i /\ sInv[i].p = sbuf
        /\ \A i \in 1..(Len(sInv) - 1) : FullSuccess(sInv[i])
        /\ spc = "returned" =>
            IF sInv # <<>> /\ ~FullSuccess(sInv[Len(sInv)])
            THEN /\ sN = sInv[Len(sInv)].n
                 /\ sErr = ErrorOf(sInv[Len(sInv)])
            ELSE /\ Len(sInv) = nSinks
                 /\ sN = Len(sbuf)
                 /\ sErr = "nil"

C10_Witness ==
    /\ skind = "Tee"
    /\ nSinks = 3
    /\ spc = "returned"
    /\ Len(sInv) = 2
    /\ sInv[2].err = "nil"
    /\ sInv[2].n < Len(sbuf)
    /\ sErr = "ErrShortWrite"

\* The invocations, in this write, of sink i
InvocationsOf(i) == {k \in DOMAIN sInv : sInv[k].sink = i}

\* C11: in every write of a sequence of writes to a Tee (or TeeWriter) whose
\* sinks all succeed, each of the N sinks receives the buffer written, the
\* same L bytes, exactly once.
C11_TeeBroadcasts ==
    (/\ skind \in {"Tee", "TeeWriter"}
     /\ spc = "returned"
     /\ \A k \in DOMAIN sInv : FullSuccess(sInv[k])) =>
        /\ \A i \in 1..nSinks :
            /\ Cardinality(InvocationsOf(i)) = 1
            /\ \A k \in InvocationsOf(i) : sInv[k].p = sbuf
        /\ Len(sInv) = nSinks
        /\ sN = Len(sbuf)
        /\ sErr = "nil"

C11_Witness ==
    /\ skind = "Tee"
    /\ nSinks = 3
    /\ spc = "returned"
    /\ sWrites = 2
    /\ sbuf = <<"a", "b">>
    /\ Len(sInv) = 3
    /\ \A k \in DOMAIN sInv : FullSuccess(sInv[k]) /\ sInv[k].p = sbuf

\* A sink invoked in this write accepted fewer bytes than it was given and
\* returned no error
SomeShortWrite ==
    \E k \in DOMAIN sInv : sInv[k].err = "nil" /\ sInv[k].n < Len(sInv[k].p)

\* C12: no sink combinator (Compose, Tee, TeeWriter, Map, Filter,
\* FilterWriter) returns a nil error for a write in which a sink it wraps
\* accepted fewer bytes than it was given.
C12_ShortWriteIsFailure ==
    (spc = "returned" /\ SomeShortWrite) => sErr # "nil"

\* C18: Map hands transform(input) to the wrapped sink and Filter hands it the
\* input bytes satisfying the predicate, in order; when the sink returns no
\* error both return (len(input), nil), and when it returns an error both
\* return the sink's count and error.
C18_MapFilterReportInputLength ==
    (skind \in {"Map", "Filter"} /\ spc = "returned") =>
        /\ Len(sInv) = 1
        /\ sInv[1].p = IF skind = "Map"
                       THEN Transform(sfn, sbuf)
                       ELSE SelectSeq(sbuf, LAMBDA b : Satisfies(sfn, b))
        /\ IF sInv[1].err = "nil"
           THEN sN = Len(sbuf) /\ sErr = "nil"
           ELSE sN = sInv[1].n /\ sErr = sInv[1].err

C18_Witness ==
    /\ skind = "Map"
    /\ sfn = "double"
    /\ spc = "returned"
    /\ sbuf = <<"a", "b">>
    /\ sInv[1].p = <<"a", "b", "a", "b">>
    /\ sInv[1].n = 4
    /\ sInv[1].err = "nil"
    /\ sN = 2
    /\ sErr = "nil"

\* ------------------------------------------------------------------------
\* ReadFunc.Compose, ComposeReaders: properties
\* ------------------------------------------------------------------------
\* f reported end-of-stream in an invocation before position k of the history
AEofBefore(k) == \E j \in 1..(k - 1) : cHist[j].src = "A" /\ cHist[j].err = "EOF"

FirstOfRead(k) == k = 1 \/ cHist[k - 1].read # cHist[k].read

\* C13: every read goes to A until A first reports end-of-stream, and from
\* that read on to B: A is never invoked after it reported end-of-stream, B
\* is never invoked before, and every read invokes one of them.
C13_ComposeSwitchesOnce ==
    /\ \A k \in DOMAIN cHist :
        /\ cHist[k].src = "A" => ~AEofBefore(k) /\ FirstOfRead(k)
        /\ cHist[k].src = "B" => AEofBefore(k)
        /\ (FirstOfRead(k) /\ ~AEofBefore(k)) => cHist[k].src = "A"
    /\ \A r \in 1..cReads : \E k \in DOMAIN cHist : cHist[k].read = r
    /\ exhausted <=> AEofBefore(Len(cHist) + 1)
    /\ cReads > 0 =>
        LET last == cHist[Len(cHist)]
        IN last.read = cReads /\ cN = last.n /\ cErr = last.err /\ cBytes = last.bytes

C13_Witness ==
    /\ cReads = 3
    /\ Len(cHist) = 4
    /\ cHist[1].src = "A" /\ cHist[1].err = "nil"
    /\ cHist[2].src = "A" /\ cHist[2].err = "EOF"
    /\ cHist[3].src = "B" /\ cHist[3].read = 2
    /\ cHist[4].src = "B" /\ cHist[4].read = 3

\* C14: when the reader of ComposeReaders(r1, ..., rk) first reports
\* end-of-stream, the caller has read the contents of r1, ..., rk in order.
C14_ComposeReadersConcatenates ==
    crErr = "EOF" => crOut = crContent

\* ------------------------------------------------------------------------
\* ReadFunc.Map, ReadFunc.Filter, FilterReader: properties
\* ------------------------------------------------------------------------
\* The bytes the wrapped source produced
Produced == SubSeq(mBuf0, 1, mSrcN)

\* C15: in a read through Map (or FilterReader) in which the source produced n
\* bytes, the buffer positions at index n and above are left as they were,
\* whatever the transform returns and whatever the buffer length.
C15_MapLeavesTailUnchanged ==
    (mkind \in {"Map", "FilterReader"} /\ mapc = "returned") =>
        \A i \in (mSrcN + 1)..Len(mBuf) : mBuf[i] = mBuf0[i]

\* C16 (as stated): when the source of Map returns a failure, Map returns the
\* source's count and status and does not invoke the transform, for every
\* count the source reports.
C16_MapFailureSkipsTransform ==
    (mkind = "Map" /\ mapc = "returned" /\ mSrcErr = "err") =>
        /\ mN = mSrcN
        /\ mErr = mSrcErr
        /\ mCalls = <<>>

\* C16 (amended): when the source of Map returns a failure, Map returns the
\* source's count and status; it does not invoke the transform when the
\* count is zero, and applies it to the bytes produced when the count is
\* positive.
C16_MapFailureKeepsCountAndStatus ==
    (mkind = "Map" /\ mapc = "returned" /\ mSrcErr = "err") =>
        /\ mN = mSrcN
        /\ mErr = mSrcErr
        /\ mCalls = IF mSrcN = 0 THEN <<>> ELSE <<Produced>>
        /\ mSrcN = 0 => mBuf = mBuf0

C16_Witness ==
    /\ mkind = "Map"
    /\ mfn = "swap"
    /\ mapc = "returned"
    /\ mSrcErr = "err"
    /\ mSrcN = 1
    /\ mBuf0 = <<"a", Stale>>
    /\ mBuf = <<"b", Stale>>
    /\ mCalls = <<(<<"a">>)>>
    /\ mN = 1
    /\ mErr = "err"

\* C17: a read through Filter returns a count m <= n, the first m bytes of
\* the buffer are the bytes among the n produced that satisfy the predicate,
\* in their order, and the status is the source's.
C17_FilterKeepsSatisfying ==
    (mkind = "Filter" /\ mapc = "returned") =>
        /\ mN <= mSrcN
        /\ SubSeq(mBuf, 1, mN) = SelectSeq(Produced, LAMBDA b : Satisfies(mfn, b))
        /\ mErr = mSrcErr
        /\ \A i \in (mSrcN + 1)..Len(mBuf) : mBuf[i] = mBuf0[i]

C17_Witness ==
    /\ mkind = "Filter"
    /\ mfn = "isA"
    /\ mapc = "returned"
    /\ mBuf0 = <<"b", "a">>
    /\ mSrcN = 2
    /\ mSrcErr = "EOF"
    /\ mN = 1
    /\ mBuf[1] = "a"
    /\ mErr = "EOF"

\* ------------------------------------------------------------------------
\* Empty().Compose(X): properties
\* ------------------------------------------------------------------------
\* C19: left identity. On every call of every call sequence,
\* Empty().Compose(X) returns what X returns (count, status and bytes in the
\* buffer, or the string), invokes X as the direct call does, and leaves the
\* source X as the direct reads leave it.
C19_LeftIdentity ==
    iCalls > 0 =>
        /\ iResC = iResD
        /\ iInvC = iInvD
        /\ iX = iXd

C19_Witness ==
    /\ ikind = "source"
    /\ iCalls = 3
    /\ iExh
    /\ iResC = [n |-> 1, err |-> "EOF", bytes |-> <<"b">>]
    /\ iResD = iResC
    /\ iInvC = <<2>>
    /\ iX.data = <<>>

\* ------------------------------------------------------------------------
\* WithAuth: properties
\* ------------------------------------------------------------------------
\* The calls made on the response writer
RespCalls == SelectSeq(mwEv, LAMBDA e : e.op \in {"WriteHeader", "Write"})

\* The bodies written to the response
RespBody == SelectSeq(mwEv, LAMBDA e : e.op = "Write")

\* How many times layer d was invoked
Invoked(d) == Cardinality({k \in DOMAIN mwEv : mwEv[k].op = "call" /\ mwEv[k].who = d})

\* What layer d did to the response
WritesBy(d) == {k \in DOMAIN mwEv : mwEv[k].who = d /\ mwEv[k].op # "call"}

\* Layer d was invoked and control has left it
Left(d) == Invoked(d) > 0 /\ mwDepth < d

\* C20: for every WithAuth layer of a chain: when authenticate rejects, the
\* handler it wraps is not invoked and, once WithAuth has returned, the
\* response is 401 with the body "Unauthorized"; when it accepts, WithAuth
\* writes nothing and, once it has returned or a panic has left it, the
\* handler it wraps has been invoked exactly once.
C20_WithAuth ==
    \A d \in DOMAIN mwChain :
        mwChain[d] = "Auth" =>
            /\ ~mwAuthOk =>
                /\ Invoked(d + 1) = 0
                /\ Left(d) =>
                    /\ mwPhase \in {"return", "done"}
                    /\ RespStatus(RespCalls) = StatusUnauthorized
                    /\ RespBody = <<Call(d, OpWrite("Unauthorized\n"))>>
            /\ mwAuthOk =>
                /\ WritesBy(d) = {}
                /\ Invoked(d) > 0 /\ mwDepth # d => Invoked(d + 1) = 1

C20_Witness ==
    /\ mwChain = <<"Auth">>
    /\ ~mwAuthOk
    /\ mwProg = <<OpWriteHeader(StatusOK), OpWrite("a")>>
    /\ mwPhase = "done"
    /\ Invoked(2) = 0
    /\ RespStatus(RespCalls) = StatusUnauthorized
    /\ RespBody = <<Call(1, OpWrite("Unauthorized\n"))>>

\* ------------------------------------------------------------------------
\* Recover, WithLogging and the chain of the README: properties
\* ------------------------------------------------------------------------
\* h was invoked and has ended by its panic
Panicked ==
    /\ Invoked(Base) = 1
    /\ mwProg # <<>>
    /\ mwProg[Len(mwProg)] = OpPanic
    /\ mwPc = Len(mwProg)
    /\ ~(mwPhase = "call" /\ mwDepth = Base)

\* The panic of h reaches layer d: no Recover below d has intercepted it
PanicReaches(d) ==
    /\ Panicked
    /\ \A k \in (d + 1)..Len(mwChain) : mwChain[k] # "Recover"

\* C21: for every Recover layer: a panic never travels past it; once the
\* layer has returned after a panic of the handler it wraps, the response is
\* a 500 whose body holds the message with the panic value; and when the
\* handler does not panic, Recover writes nothing.
C21_RecoverAnswers500 ==
    \A d \in DOMAIN mwChain :
        mwChain[d] = "Recover" =>
            /\ ~(mwPhase \in {"panic", "crashed"} /\ mwDepth < d)
            /\ (Left(d) /\ PanicReaches(d)) =>
                /\ RespStatus(RespCalls) = StatusInternalServerError
                /\ \E k \in DOMAIN mwEv :
                    mwEv[k] = Call(d, OpWrite("Internal Server Error: boom\n"))
            /\ ~PanicReaches(d) => WritesBy(d) = {}

\* What layer d logged, and when it called the handler it wraps
LoggedAround(d) ==
    SelectSeq(mwEv, LAMBDA e : \/ e.who = d /\ e.op = "log"
                               \/ e.who = d + 1 /\ e.op = "call")

\* C22: for every WithLogging layer, once control has left it, whether by a
\* return or by a panic, it has logged exactly two lines: "Request" before
\* the wrapped handler started and "Completed" after it ended.
C22_LoggingTwoLines ==
    \A d \in DOMAIN mwChain :
        (mwChain[d] = "Logging" /\ Left(d)) =>
            LoggedAround(d) = <<Call(d, OpLog("Request")),
                                Call(d + 1, OpCall),
                                Call(d, OpLog("Completed"))>>

\* The headers set, the lines logged and the invocations of h, in order
Outline ==
    SelectSeq(mwEv, LAMBDA e : \/ e.op \in {"Header", "log"}
                               \/ e.who = Base /\ e.op = "call")

\* C23: in h.WithLogging(l).WithAuth(a).WithCORS(o), for a request that is
\* not OPTIONS, once the call has ended: if a rejects, the CORS headers are
\* set, the response is 401, nothing is logged and h is not invoked; if a
\* accepts, the CORS headers are set, then "Request" is logged, then h
\* runs, then "Completed" is logged.
C23_LastAppliedRunsFirst ==
    (/\ mwChain = <<"CORS", "Auth", "Logging">>
     /\ mwMethod # "OPTIONS"
     /\ mwPhase \in {"done", "crashed"}) =>
        IF mwAuthOk
        THEN Outline = CORSHeaders(1) \o <<Call(3, OpLog("Request")),
                                           Call(4, OpCall),
                                           Call(3, OpLog("Completed"))>>
        ELSE /\ Outline = CORSHeaders(1)
             /\ RespStatus(RespCalls) = StatusUnauthorized

\* ------------------------------------------------------------------------
\* ReadFunc.WithTimeout: properties
\* ------------------------------------------------------------------------
TimedReturned(k) == rtRet[k] # NoRead

\* The goroutine of read k invokes f once
InvokedOnce(k) ==
    /\ rtSrcCalls[k] <= 1
    /\ rtG[k] \in {"sending", "done"} => rtSrcCalls[k] = 1

\* The first of the timer and the delivery of read k decided what it returned
FirstEventDecides(k) ==
    /\ rtOrder[k] # <<>> /\ Head(rtOrder[k]) = "fire" => rtRet[k] = ReadTimeout
    /\ rtOrder[k] # <<>> /\ Head(rtOrder[k]) = "deliver" => rtRet[k] = rtSrc[k]

\* No read returned the result of another read's invocation
OwnResultOnly(k) == \A j \in TimedReads : rtRet[j].call \in {0, j}

\* C24 (as stated): each read invokes f once; if the timer fires before the
\* invocation delivers, the read returns (0, read timeout); if the
\* invocation delivers first, the read returns its count and status; and no
\* read returns the result of an abandoned invocation.
C24_FirstEventAlwaysDecides ==
    \A k \in TimedReads :
        /\ InvokedOnce(k)
        /\ OwnResultOnly(k)
        /\ TimedReturned(k) => FirstEventDecides(k)

\* C24 (amended): each read invokes f once; a read returns (0, read
\* timeout) only after its timer fired and otherwise returns the count and
\* status of its own invocation; when its select found neither ready and
\* waited, the first of the two events decides; when both had happened
\* before the select looked, either is returned; and no read returns the
\* result of an abandoned invocation.
C24_SelectDecides ==
    \A k \in TimedReads :
        /\ InvokedOnce(k)
        /\ OwnResultOnly(k)
        /\ TimedReturned(k) =>
            /\ rtRet[k] = ReadTimeout => rtFired[k]
            /\ rtRet[k] # ReadTimeout =>
                rtRet[k] = rtSrc[k] /\ rtG[k] = "done"
            /\ rtWaited[k] => FirstEventDecides(k)
            /\ ~FirstEventDecides(k) => Len(rtOrder[k]) = 2

C24_Witness ==
    /\ rtWaited[1]
    /\ rtRet[1] = ReadTimeout
    /\ rtG[1] = "done"
    /\ rtCh[1] = <<rtSrc[1]>>
    /\ rtRet[2] = rtSrc[2]
    /\ rtRet[2].call = 2

\* C30: the goroutine of every read ends once f has returned: its send can
\* always proceed, also after the read has returned the timeout.
C30_SenderTerminates ==
    \A k \in TimedReads : (rtG[k] = "sending") ~> (rtG[k] = "done")

C30_Witness ==
    /\ rtRet[1] = ReadTimeout
    /\ rtG[1] = "done"
    /\ rtOrder[1] = <<"fire">>
    /\ Len(rtCh[1]) = ChanCap

\* ------------------------------------------------------------------------
\* WithMetrics: properties
\* ------------------------------------------------------------------------
Called == {c \in Callers : wmPc[c] # "idle"}

RECURSIVE SumOfCounts(_)
SumOfCounts(cs) ==
    IF cs = {} THEN 0
    ELSE LET c == CHOOSE x \in cs : TRUE
         IN wmRes[c].n + SumOfCounts(cs \ {c})

\* C25: in every interleaving, once all the calls made have returned,
\* TotalWrites is the number of calls, TotalBytes the sum of the counts the
\* wrapped writer returned, ErrorCount the number of calls whose wrapped write
\* failed, and each call returned what the wrapped writer returned.
C25_NoLostUpdate ==
    (\A c \in Callers : wmPc[c] \in {"idle", "returned"}) =>
        /\ TotalWrites = Cardinality(Called)
        /\ TotalBytes = SumOfCounts(Called)
        /\ ErrorCount = Cardinality({c \in Called : wmRes[c].err # "nil"})
        /\ \A c \in Called : wmRet[c] = wmRes[c]

C25_Witness ==
    /\ \A c \in Callers : wmPc[c] = "returned"
    /\ \A c \in Callers : wmRes[c] = [n |-> 1, err |-> "e1"]
    /\ TotalWrites = MaxCallers
    /\ TotalBytes = MaxCallers
    /\ ErrorCount = MaxCallers

\* ------------------------------------------------------------------------
\* ReadFunc.Compose: no data lost
\* ------------------------------------------------------------------------
RECURSIVE ProducedIn(_, _)
\* The bytes the two sources produced in read number r, in order
ProducedIn(r, i) ==
    IF i > Len(cHist) THEN <<>>
    ELSE (IF cHist[i].read = r THEN cHist[i].bytes ELSE <<>>) \o ProducedIn(r, i + 1)

\* C26: Compose(A, B) loses no data: in every read, the bytes delivered to
\* the caller are the bytes the sources produced in that read, A's before
\* B's, also when A reports end-of-stream together with a positive count.
C26_ComposeLosesNoData ==
    cReads > 0 => cBytes = ProducedIn(cReads, 1)

\* ------------------------------------------------------------------------
\* ReadFunc.Retry with any maxRetries
\* ------------------------------------------------------------------------
\* C29: for every maxRetries, negative ones included, a read through Retry
\* invokes the source at least once, and returns a nil status only when an
\* invocation of that read returned a nil status.
C29_RetryInvokesSource ==
    rpc = "returned" =>
        /\ Len(rLog) >= 1
        /\ rErr = "nil" => \E j \in DOMAIN rLog : rLog[j].err = "nil"

\* ------------------------------------------------------------------------
\* HandlerFunc.WithTimeout: the underlying writer is never used concurrently
\* ------------------------------------------------------------------------
\* The handler goroutine is inside Write or WriteHeader, past the lock
HandlerInside == hstep = "crit"

\* The timeout path is at its WriteHeader or Write on the underlying writer
MainInside == mpc \in {"wh", "wb"}

\* C28: in every interleaving, the handler goroutine's Write/WriteHeader on
\* the underlying writer and the timeout path's WriteHeader/Write exclude
\* each other: each runs only while its goroutine holds tw.mu, and never
\* both at once.
C28_UnderlyingWriterExclusive ==
    /\ HandlerInside => mu = "handler"
    /\ MainInside => mu = "main"
    /\ ~(HandlerInside /\ MainInside)

C28_Witness ==
    /\ mpc = "wb"
    /\ mu = "main"
    /\ Len(under) = 2
    /\ under[1].who = "handler"
    /\ under[2].who = "timeout"

\* ------------------------------------------------------------------------
\* h.WithTimeout(d).Recover(): properties
\* ------------------------------------------------------------------------
\* C27: in h.WithTimeout(d).Recover(), a panic of h is intercepted by
\* Recover: the panic goes no further (the program keeps running), and once
\* the call has returned after a panic of h the response is a 500.
C27_RecoverInterceptsPanic ==
    /\ gpProcess = "running"
    /\ (gpMain = "returned" /\ gpPanicOn # "none") =>
        RespStatus(gpUnder) = StatusInternalServerError

====
